---- MODULE Spec2Model ----
(***************************************************************************)
(* Orchestration loop of the web agent: the LangGraph workflow             *)
(* (qa_agent/workflow.py), its two routers, the minimal Think node         *)
(* (qa_agent/nodes/think.py), the Act wrapper and Act node                 *)
(* (web_agent/nodes/act_wrapper.py, act.py) and the tool-calling Think     *)
(* node (web_agent/nodes/think.py).                                        *)
(*                                                                         *)
(* The workflow state (QAAgentState) is one record, `state`; a node        *)
(* returns an update record and LangGraph merges it into the state: a key  *)
(* the update does not name keeps its value, `history` accumulates.        *)
(***************************************************************************)
EXTENDS Integers, Sequences, FiniteSets, TLC

VARIABLES
    state,        \* QAAgentState, the record threaded through the nodes
    node,         \* the node the graph runs next ("end" after Report)
    route,        \* the verdict of the last router call ("" before any)
    registered,   \* is the browser session in the session registry
    think_runs,   \* number of Think executions so far (observation only)
    choices,      \* the first action of each Think output so far, in order
    sent,         \* the first action of each list Act has dispatched, in order
    routed_by     \* the router that gave `route` ("think", "verify" or "")

vars == <<state, node, route, registered, think_runs, choices, sent, routed_by>>

---------------------------------------------------------------------------
(* Bounds of the model *)

MaxStepsBound == 6      \* max_steps is configured in 0..MaxStepsBound
MaxFailuresBound == 3   \* max_failures is configured in 0..MaxFailuresBound
MaxHistoryLen == 4      \* histories handed to the Verify router
FullStepsBound == 4     \* max_steps of the tool-calling flow is in 0..FullStepsBound
MaxActions == 2         \* action lists handed to the Act node alone
MaxLines == 3           \* lines of a checklist text
MaxMatched == 1         \* indices in one answer of the step matcher
MaxPhrases == 2         \* phrases in one error text
MaxStepWords == 2       \* keyword phrases in one step text
MaxToolCalls == 2       \* tool calls in one oracle response
MaxErrors == 2          \* errors of one page scan, action results of one batch
MaxViewers == 4         \* websockets on the browser stream
MaxSessions == 3        \* browser sessions created in one process

(* Program constants *)

max_retries == 3        \* Settings.max_retries
RetryCeiling == 3       \* "think_retries > 3" in the minimal Think node
RepetitionLimit == 3
max_passes == 5           \* act_node's call of the stability detector
stability_threshold == 2    \* "action_repetition_count >= 3"

---------------------------------------------------------------------------
(* Values *)

NoFeedback ==
    [present |-> FALSE, success |-> FALSE, detected_errors |-> <<>>,
     pv_present |-> FALSE, pv_valid |-> TRUE, pv_recovery |-> ""]

\* The state a caller hands to the workflow: every key at its default.
DefaultState ==
    [browser_session_id |-> "",
     step_count |-> 0,
     max_steps |-> 0,
     consecutive_failures |-> 0,
     max_failures |-> 0,
     final_response_after_failure |-> TRUE,
     completed |-> FALSE,
     error |-> "",
     think_output |-> "",
     think_retries |-> 0,
     act_feedback |-> NoFeedback,
     last_act_result_success |-> FALSE,
     todo |-> [present |-> FALSE, steps |-> <<>>],
     history |-> <<>>,
     actions |-> <<>>,
     executed_actions |-> <<>>,
     action_results |-> <<>>,
     action_repetition_count |-> 0,
     new_tab_id |-> 0,
     verification_status |-> ""]

\* A history entry; every node writes the keys it has and leaves the others
\* at these defaults.
Entry(n, step, status, acts) ==
    [node |-> n, step |-> step, verification_status |-> status, actions |-> acts]

\* LangGraph's merge of a node's update into the state: `history` has the
\* accumulating reducer, every other key is overwritten.
Merge(s, u) ==
    [k \in DOMAIN s |->
        IF k \in DOMAIN u
        THEN IF k = "history" THEN s.history \o u.history ELSE u[k]
        ELSE s[k]]

---------------------------------------------------------------------------
(* Routers: qa_agent/workflow.py *)

\* Variant: the extra attempt that final_response_after_failure grants is lost.
FailureCeilingNoExtra(s) == s.max_failures

\* max_failures + int(final_response_after_failure)
FailureCeiling(s) ==
    s.max_failures + (IF s.final_response_after_failure THEN 1 ELSE 0)

\* Variant: the decision is looked at before the step budget.
should_continue_after_think_decision_first(s) ==
    IF s.completed THEN "done"
    ELSE IF s.error # "" THEN "done"
    ELSE IF s.consecutive_failures >= FailureCeiling(s) THEN "done"
    ELSE IF s.think_output # "" THEN "continue"
    ELSE "done"

should_continue_after_think(s) ==
    IF s.completed THEN "done"
    ELSE IF s.error # "" THEN "done"
    ELSE IF s.consecutive_failures >= FailureCeiling(s) THEN "done"
    ELSE IF s.step_count >= s.max_steps THEN "done"
    ELSE IF s.think_output # "" THEN "continue"
    ELSE "done"

\* The backward scan of should_continue: i is the entry looked at, n the
\* failures counted so far. An entry of another node is passed over; the scan
\* stops at a verify entry that did not fail.
RECURSIVE ScanVerifyFailures(_, _, _)
ScanVerifyFailures(h, i, n) ==
    IF i = 0 THEN n
    ELSE IF h[i].node = "verify"
         THEN IF h[i].verification_status = "fail"
              THEN ScanVerifyFailures(h, i - 1, n + 1)
              ELSE n
         ELSE ScanVerifyFailures(h, i - 1, n)

\* A scan that stops at the first entry that is not a failed verify entry.
RECURSIVE ScanTrailingFailures(_, _, _)
ScanTrailingFailures(h, i, n) ==
    IF i = 0 THEN n
    ELSE IF h[i].node = "verify" /\ h[i].verification_status = "fail"
         THEN ScanTrailingFailures(h, i - 1, n + 1)
         ELSE n

\* Variant: the count is taken by the scan that stops at any other entry.
recent_failures_trailing(history) == ScanTrailingFailures(history, Len(history), 0)

\* The count should_continue derives from history (its local
\* consecutive_failures).
recent_failures(history) == ScanVerifyFailures(history, Len(history), 0)

\* Variant: one failed verification too many is retried (<= for <).
should_continue_late(s) ==
    IF s.completed THEN "done"
    ELSE IF s.error # "" THEN "done"
    ELSE IF s.consecutive_failures >= FailureCeiling(s) THEN "done"
    ELSE IF s.step_count >= s.max_steps THEN "done"
    ELSE IF s.verification_status = "pass" THEN "continue"
    ELSE IF s.verification_status = "fail"
         THEN IF recent_failures(s.history) <= max_retries
              THEN "retry"
              ELSE "done"
         ELSE "continue"

should_continue(s) ==
    IF s.completed THEN "done"
    ELSE IF s.error # "" THEN "done"
    ELSE IF s.consecutive_failures >= FailureCeiling(s) THEN "done"
    ELSE IF s.step_count >= s.max_steps THEN "done"
    ELSE IF s.verification_status = "pass" THEN "continue"
    ELSE IF s.verification_status = "fail"
         THEN IF recent_failures(s.history) < max_retries
              THEN "retry"
              ELSE "done"
         ELSE "continue"

\* The conditional edges out of think and out of verify.
EdgeAfterThink(r) ==
    CASE r = "continue" -> "act"
      [] r = "replan" -> "think"
      [] OTHER -> "report"

EdgeAfterVerify(r) ==
    CASE r = "continue" -> "think"
      [] r = "retry" -> "think"
      [] OTHER -> "report"

---------------------------------------------------------------------------
(* Checklist (todo.md) progress: web_agent/utils/todo_parser.py *)

\* Indices of the pending steps of a checklist (a step is TRUE when complete).
PendingSteps(steps) == { i \in 1..Len(steps) : ~steps[i] }

\* get_todo_progress(...)["current_step"]: the first pending step, 0 for None.
CurrentStep(steps) ==
    IF PendingSteps(steps) = {} THEN 0
    ELSE CHOOSE i \in PendingSteps(steps) : \A j \in PendingSteps(steps) : i <= j

---------------------------------------------------------------------------
(* Minimal Think node: qa_agent/nodes/think.py *)

\* The except branch: the step still counts, the fault is recorded.
ThinkRaised(s, msg) ==
    [step_count |-> s.step_count + 1,
     think_output |-> "Error in THINK node - proceeding with next step",
     error |-> msg,
     history |-> <<Entry("think", s.step_count + 1, "", <<>>)>>]

\* The strategy chosen for the primary detected error.
RecoveryStrategy(err) ==
    CASE err.type = "already_exists" -> "Try switching to login"
      [] err.type = "permission_denied" -> "Permission denied. Try logging in"
      [] err.type = "invalid_input" -> "Try with corrected input"
      [] err.type = "network_error" -> "Network error detected. Let me retry"
      [] err.type = "server_error" -> "Server error detected. Let me retry"
      [] OTHER -> "Error occurred. Let me try again"

\* A response text by what the parser can see in it: kind "text" (no JSON;
\* body is the stripped text), "json_object" (the text is a JSON object),
\* "text_with_object" (prose around a flat JSON object that has a next_step
\* key), "json_other" (valid JSON that is no object: a list, a number, a
\* string, null). For an object: whether it has next_step, and the value's
\* type ("str", "null", "number") and, for a string, the string.
ResponseText(kind, body, has, type, value) ==
    [raises |-> FALSE, kind |-> kind, body |-> body,
     has_next_step |-> has, ns_type |-> type, ns_value |-> value]

\* MinimalThinkResponse._parse_response: json.loads, else the regex search for
\* an object with next_step, else the stripped text as the next step.
\* is_dict is FALSE when json.loads returned something that is no dict.
ParseResponse(text) ==
    CASE text.kind = "json_other" ->
            [is_dict |-> FALSE, has_next_step |-> FALSE, ns_type |-> "", ns_value |-> ""]
      [] text.kind \in {"json_object", "text_with_object"} ->
            [is_dict |-> TRUE, has_next_step |-> text.has_next_step,
             ns_type |-> text.ns_type, ns_value |-> text.ns_value]
      [] OTHER ->
            [is_dict |-> TRUE, has_next_step |-> TRUE, ns_type |-> "str", ns_value |-> text.body]

\* MinimalThinkResponse.next_step: parsed.get("next_step", "Unknown step").
NextStepOf(parsed) ==
    IF parsed.has_next_step
    THEN [type |-> parsed.ns_type, value |-> parsed.ns_value]
    ELSE [type |-> "str", value |-> "Unknown step"]

\* Reading the parsed response raises: .get on a non-dict (AttributeError),
\* or len() of a truthy next_step that is a number (TypeError).
ResponseRaises(parsed) ==
    \/ ~parsed.is_dict
    \/ NextStepOf(parsed).type = "number"

\* MinimalThinkResponse.is_valid: bool(next_step and len(next_step) > 0).
is_valid(parsed) ==
    /\ NextStepOf(parsed).type = "str"
    /\ NextStepOf(parsed).value # ""

\* think_node gets as far as the oracle call: the session is there, a step is
\* pending, and no recovery branch returns before it.
AsksOracle(s, reg) ==
    LET steps == IF s.todo.present THEN s.todo.steps ELSE <<FALSE>>
        fb == s.act_feedback
    IN /\ s.browser_session_id # "" /\ reg
       /\ CurrentStep(steps) # 0
       /\ ~(fb.present /\ fb.detected_errors # <<>> /\ ~s.last_act_result_success)
       /\ ~(fb.present /\ fb.pv_present /\ ~fb.pv_valid /\ s.think_retries + 1 <= RetryCeiling)

\* resp is what the oracle call does: it raises, or it returns a response text.
think_node(s, reg, resp) ==
    LET step_count == s.step_count + 1
        steps == IF s.todo.present THEN s.todo.steps ELSE <<FALSE>>
        fb == s.act_feedback
        detected == IF fb.present THEN fb.detected_errors ELSE <<>>
        retries == s.think_retries + 1
        entry == Entry("think", step_count, "", <<>>)
    IN
    IF s.browser_session_id = "" THEN ThinkRaised(s, "No browser_session_id in state")
    ELSE IF ~reg THEN ThinkRaised(s, "Browser session not found")
    ELSE IF CurrentStep(steps) = 0
    THEN [step_count |-> step_count,
          think_output |-> "All todo items completed",
          completed |-> TRUE]
    ELSE IF detected # <<>> /\ ~s.last_act_result_success
    THEN [step_count |-> step_count,
          think_output |-> IF retries > RetryCeiling
                           THEN "Unable to recover from error"
                           ELSE RecoveryStrategy(detected[1]),
          history |-> <<entry>>,
          think_retries |-> retries,
          completed |-> FALSE]
    ELSE IF fb.present /\ fb.pv_present /\ ~fb.pv_valid /\ retries <= RetryCeiling
    THEN [step_count |-> step_count,
          think_output |-> fb.pv_recovery,
          history |-> <<entry>>,
          think_retries |-> retries,
          completed |-> FALSE]
    ELSE \* the oracle is asked; also after a page mismatch past the ceiling
         IF resp.raises THEN ThinkRaised(s, "oracle call failed")
         ELSE IF ResponseRaises(ParseResponse(resp))
         THEN ThinkRaised(s, "response could not be read")
         ELSE [step_count |-> step_count,
               think_output |-> IF is_valid(ParseResponse(resp))
                                THEN NextStepOf(ParseResponse(resp)).value
                                ELSE "Continue with: current step",
               history |-> <<entry>>,
               completed |-> PendingSteps(steps) = {},
               think_retries |-> 0]

---------------------------------------------------------------------------
(* Act node: web_agent/nodes/act.py *)

\* The tools of BROWSER_TOOLS the model uses; any other action type is unknown.
KnownTools == {"click", "input_text", "navigate"}

MaxOf(S) == CHOOSE x \in S : \A y \in S : y <= x

\* New-tab detection: the id of the last tab that is new and is not the
\* current target, 0 (None) when the tab count did not grow or no such tab.
DetectNewTab(previous_tabs, current_tabs, current_target) ==
    IF Cardinality(current_tabs) > Cardinality(previous_tabs)
    THEN LET new_tabs == { t \in current_tabs : t \notin previous_tabs /\ t # current_target }
         IN IF new_tabs # {} THEN MaxOf(new_tabs) ELSE 0
    ELSE 0

\* A loop that counts an action whose tool raised among the executed ones.
ActionResultRaiseCounted(action, outcome) ==
    IF action.action_type \notin KnownTools
    THEN [success |-> FALSE, action |-> action, error |-> "Unknown action", returned |-> FALSE]
    ELSE IF outcome = "raise"
    THEN [success |-> FALSE, action |-> action, error |-> "tool raised", returned |-> TRUE]
    ELSE [success |-> outcome = "ok", action |-> action,
          error |-> IF outcome = "ok" THEN "" ELSE "tool error", returned |-> TRUE]

\* The result recorded for the i-th action: outcomes[i] is what its tool does,
\* "ok" (returns without error), "error" (returns an error) or "raise".
ActionResult(action, outcome) ==
    IF action.action_type \notin KnownTools
    THEN [success |-> FALSE, action |-> action, error |-> "Unknown action", returned |-> FALSE]
    ELSE IF outcome = "raise"
    THEN [success |-> FALSE, action |-> action, error |-> "tool raised", returned |-> FALSE]
    ELSE [success |-> outcome = "ok", action |-> action,
          error |-> IF outcome = "ok" THEN "" ELSE "tool error", returned |-> TRUE]

\* The results of the action loop, in order: one per action with an action type.
RECURSIVE ActionResults(_, _, _)
ActionResults(actions, outcomes, i) ==
    IF i > Len(actions) THEN <<>>
    ELSE IF actions[i].action_type = ""
    THEN ActionResults(actions, outcomes, i + 1)
    ELSE <<ActionResult(actions[i], outcomes[i])>> \o ActionResults(actions, outcomes, i + 1)

RECURSIVE ReturnedActions(_)
ReturnedActions(results) ==
    IF results = <<>> THEN <<>>
    ELSE (IF results[1].returned THEN <<results[1].action>> ELSE <<>>)
         \o ReturnedActions(Tail(results))

\* act_node raises (the stability wait or the fresh state read after the
\* actions is outside any try) when the driver fails there.
ActNodeRaises(s, reg, drv) ==
    /\ s.browser_session_id # "" /\ reg
    /\ s.actions # <<>>
    /\ ~drv.fetch_ok

act_node(s, reg, drv) ==
    IF s.browser_session_id = ""
    THEN [error |-> "No browser session ID - INIT node must run first",
          executed_actions |-> <<>>, action_results |-> <<>>]
    ELSE IF ~reg
    THEN [error |-> "Browser session not found",
          executed_actions |-> <<>>, action_results |-> <<>>]
    ELSE IF s.actions = <<>>
    THEN [executed_actions |-> <<>>, action_results |-> <<>>]
    ELSE LET results == ActionResults(s.actions, drv.outcomes, 1)
             executed == ReturnedActions(results)
         IN [executed_actions |-> executed,
             action_results |-> results,
             actions |-> <<>>,
             history |-> s.history \o <<Entry("act", s.step_count, "", executed)>>,
             new_tab_id |-> DetectNewTab(drv.previous_tabs, drv.current_tabs, drv.current_target)]

---------------------------------------------------------------------------
(* Act wrapper: web_agent/nodes/act_wrapper.py *)

SeverityRank(e) ==
    CASE e.severity = "high" -> 0
      [] e.severity = "medium" -> 1
      [] e.severity = "low" -> 2
      [] OTHER -> 3

\* A sort that puts the least severe first.
SortByReverseSeverity(errors) ==
    LET Rank(r) == SelectSeq(errors, LAMBDA e : SeverityRank(e) = r)
    IN Rank(3) \o Rank(2) \o Rank(1) \o Rank(0)

\* list.sort(key=severity rank): stable, so each rank keeps its order.
SortBySeverity(errors) ==
    LET Rank(r) == SelectSeq(errors, LAMBDA e : SeverityRank(e) = r)
    IN Rank(0) \o Rank(1) \o Rank(2) \o Rank(3)

\* extract_errors_from_action_result for the error field of each result.
RECURSIVE ResultErrors(_)
ResultErrors(results) ==
    IF results = <<>> THEN <<>>
    ELSE (IF results[1].error # ""
          THEN <<[type |-> "generic", severity |-> "medium"]>> ELSE <<>>)
         \o ResultErrors(Tail(results))

\* detected_errors of the feedback: the errors of the page scan, then those of
\* the action results, sorted.
DetectedErrors(dom_errors, action_results) ==
    SortBySeverity(dom_errors \o ResultErrors(action_results))

\* The except branch of the wrapper.
WrapperRaised(msg) ==
    [executed_actions |-> <<>>,
     action_results |-> <<>>,
     act_feedback |-> [present |-> TRUE, success |-> FALSE, detected_errors |-> <<>>,
                       pv_present |-> TRUE, pv_valid |-> FALSE,
                       pv_recovery |-> "ACT wrapper encountered an error. Please check logs."],
     last_act_result_success |-> FALSE,
     error |-> msg]

\* drv is what the driver and the action oracle do during the step.
act_wrapper_node(s, reg, drv) ==
    IF s.browser_session_id = "" THEN WrapperRaised("No browser_session_id")
    ELSE IF ~reg THEN WrapperRaised("Browser session not found")
    ELSE IF ~drv.state_ok THEN WrapperRaised("browser state read failed")
    ELSE IF drv.validation = "mismatch"
    THEN [executed_actions |-> <<>>,
          action_results |-> <<>>,
          act_feedback |-> [present |-> TRUE, success |-> FALSE, detected_errors |-> <<>>,
                            pv_present |-> TRUE, pv_valid |-> FALSE,
                            pv_recovery |-> "Navigate to the expected page"],
          last_act_result_success |-> FALSE]
    ELSE IF drv.generated = <<>>
    THEN [executed_actions |-> <<>>,
          action_results |-> <<>>,
          act_feedback |-> [present |-> TRUE, success |-> FALSE, detected_errors |-> <<>>,
                            pv_present |-> FALSE, pv_valid |-> TRUE, pv_recovery |-> ""],
          last_act_result_success |-> FALSE]
    ELSE IF ActNodeRaises(s, reg, drv) THEN WrapperRaised("act node failed")
    ELSE LET result == act_node(s, reg, drv)   \* reads state["actions"], not the generated list
             executed_actions == result.executed_actions
             action_results == result.action_results
             all_succeeded == IF action_results # <<>>
                              THEN \A i \in 1..Len(action_results) : action_results[i].success
                              ELSE Len(executed_actions) > 0
             detected == DetectedErrors(drv.dom_errors, action_results)
         IN [executed_actions |-> executed_actions,
             action_results |-> action_results,
             act_feedback |-> [present |-> TRUE, success |-> all_succeeded,
                               detected_errors |-> detected,
                               pv_present |-> TRUE, pv_valid |-> TRUE, pv_recovery |-> ""],
             last_act_result_success |-> all_succeeded,
             think_retries |-> 0,
             history |-> IF "history" \in DOMAIN result THEN result.history ELSE <<>>]

---------------------------------------------------------------------------
(* The workflow graph: create_qa_workflow, qa_agent/workflow.py *)

\* The response texts of the oracle: prose, the empty text, JSON objects with
\* and without a next step, prose around such an object, JSON that is no object.
ResponseTexts ==
    { ResponseText("text", b, FALSE, "", "") : b \in {"", "next step"} }
    \cup { ResponseText("json_object", "", FALSE, "", "") }
    \cup { ResponseText(k, "", TRUE, "str", v) :
             k \in {"json_object", "text_with_object"}, v \in {"", "next step"} }
    \cup { ResponseText("json_object", "", TRUE, ty, "") : ty \in {"null", "number"} }
    \cup { ResponseText("json_other", "", FALSE, "", "") }

OracleResponses ==
    { [raises |-> TRUE, kind |-> "", body |-> "",
       has_next_step |-> FALSE, ns_type |-> "", ns_value |-> ""] }
    \cup ResponseTexts

DomErrorLists ==
    { <<>>,
      <<[type |-> "invalid_input", severity |-> "medium"]>>,
      <<[type |-> "invalid_input", severity |-> "medium"],
        [type |-> "server_error", severity |-> "high"]>> }

Click(i) == [action_type |-> "click", has_index |-> TRUE, index |-> i]

\* What the driver and the action oracle can do during one wrapper step. A
\* page mismatch needs a checklist with a pending step to compare with.
WrapperInputs(s) ==
    { [state_ok |-> ok, validation |-> v, generated |-> g, dom_errors |-> d,
       fetch_ok |-> TRUE, outcomes |-> <<>>,
       previous_tabs |-> {1}, current_tabs |-> {1}, current_target |-> 1] :
        ok \in BOOLEAN,
        v \in {"valid"} \cup
              (IF s.todo.present /\ PendingSteps(s.todo.steps) # {} THEN {"mismatch"} ELSE {}),
        g \in {<<>>, <<Click(7)>>},
        d \in DomErrorLists }

Checklists ==
    { [present |-> FALSE, steps |-> <<>>],
      [present |-> TRUE, steps |-> <<>>],
      [present |-> TRUE, steps |-> <<TRUE, FALSE>>] }

Init ==
    /\ \E ms \in 0..MaxStepsBound, mf \in 0..MaxFailuresBound, fr \in BOOLEAN :
          state = [DefaultState EXCEPT !.max_steps = ms, !.max_failures = mf,
                                       !.final_response_after_failure = fr]
    /\ node = "init"
    /\ route = ""
    /\ registered = FALSE
    /\ think_runs = 0
    /\ choices = <<>>
    /\ sent = <<>>
    /\ routed_by = ""

\* INIT creates the browser session and puts its id in the state, or fails to.
InitNode ==
    /\ node = "init"
    /\ \E created \in BOOLEAN :
          /\ state' = [state EXCEPT !.browser_session_id = IF created THEN "sid" ELSE ""]
          /\ registered' = created
    /\ node' = "plan"
    /\ UNCHANGED <<route, think_runs, choices, sent, routed_by>>

\* PLAN writes the checklist.
PlanNode ==
    /\ node = "plan"
    /\ \E todo \in Checklists : state' = [state EXCEPT !.todo = todo]
    /\ node' = "think"
    /\ UNCHANGED <<route, registered, think_runs, choices, sent, routed_by>>

\* The think node followed by its conditional edge.
Think ==
    /\ node = "think"
    /\ \E resp \in OracleResponses :
          state' = Merge(state, think_node(state, registered, resp))
    /\ think_runs' = think_runs + 1
    /\ route' = should_continue_after_think(state')
    /\ routed_by' = "think"
    /\ node' = EdgeAfterThink(route')
    /\ UNCHANGED <<registered, choices, sent>>

\* The act node (the wrapper) followed by the edge act -> think.
Act ==
    /\ node = "act"
    /\ \E drv \in WrapperInputs(state) :
          state' = Merge(state, act_wrapper_node(state, registered, drv))
    /\ node' = "think"
    /\ UNCHANGED <<route, registered, think_runs, choices, sent, routed_by>>

\* The report node followed by the edge report -> END.
Report ==
    /\ node = "report"
    /\ node' = "end"
    /\ UNCHANGED <<state, route, registered, think_runs, choices, sent, routed_by>>

\* cleanup_browser_session: the session leaves the registry while the task runs.
CleanupSession ==
    /\ node \in {"think", "act"}
    /\ registered
    /\ registered' = FALSE
    /\ UNCHANGED <<state, node, route, think_runs, choices, sent, routed_by>>

Next == InitNode \/ PlanNode \/ Think \/ Act \/ Report \/ CleanupSession

Spec == Init /\ [][Next]_vars

\* The graph runner runs the next node as long as there is one.
LiveSpec == Spec /\ WF_vars(InitNode \/ PlanNode \/ Think \/ Act \/ Report)

---------------------------------------------------------------------------
(* Tool-calling Think node: web_agent/nodes/think.py *)

NoAction == [action_type |-> "", has_index |-> FALSE, index |-> 0]

DoneAction == [action_type |-> "done", has_index |-> FALSE, index |-> 0]

Navigate == [action_type |-> "navigate", has_index |-> FALSE, index |-> 0]

\* The except branch: the fault is recorded, the step is not counted.
WebThinkRaised(s, msg) ==
    [error |-> msg, step_count |-> s.step_count, actions |-> <<>>]

\* The tool calls that normalise to an action with an action type.
NormalizedActions(tool_calls) == SelectSeq(tool_calls, LAMBDA a : a.action_type # "")

\* The first action of the most recent think entry that has actions.
RECURSIVE PreviousAction(_)
PreviousAction(h) ==
    IF h = <<>> THEN NoAction
    ELSE LET entry == h[Len(h)]
         IN IF entry.node = "think" /\ entry.actions # <<>>
            THEN entry.actions[1]
            ELSE PreviousAction(SubSeq(h, 1, Len(h) - 1))

\* prev_type == curr_type and prev_index is not None and prev_index == curr_index
SameTarget(prev, curr) ==
    /\ prev.action_type = curr.action_type
    /\ prev.has_index
    /\ curr.has_index
    /\ prev.index = curr.index

\* Variant: one more repeat is let through (> for >=).
ForcesCompletionLate(count) == count > RepetitionLimit

\* if action_repetition_count >= 3: force completion
ForcesCompletion(count) == count >= RepetitionLimit

\* resp is what the two oracle calls do: raises, or the tool calls and whether
\* the assistant message has content.
web_think_node(s, reg, resp) ==
    LET step_count == s.step_count + 1
        normalized == NormalizedActions(resp.tool_calls)
        actions == IF normalized = <<>> /\ resp.content THEN <<DoneAction>> ELSE normalized
    IN
    IF s.browser_session_id = "" THEN WebThinkRaised(s, "No browser_session_id in state")
    ELSE IF ~reg THEN WebThinkRaised(s, "Browser session not found in registry")
    ELSE IF resp.raises THEN WebThinkRaised(s, "Think node error")
    ELSE IF actions = <<>>
    THEN [error |-> "No tool calls returned from LLM response.",
          step_count |-> step_count,
          actions |-> <<>>]
    ELSE IF \E i \in 1..Len(actions) : actions[i].action_type = "done"
    THEN [step_count |-> step_count,
          actions |-> actions,
          completed |-> TRUE,
          history |-> <<Entry("think", step_count, "", actions)>>]
    ELSE LET previous_action == PreviousAction(s.history)
             current_action == actions[1]
             repeated == previous_action # NoAction /\ SameTarget(previous_action, current_action)
             action_repetition_count == IF repeated THEN s.action_repetition_count + 1 ELSE 0
         IN IF repeated /\ ForcesCompletion(action_repetition_count)
            THEN [error |-> "Action repeated without success",
                  completed |-> TRUE,
                  step_count |-> step_count]
            ELSE [step_count |-> step_count,
                  actions |-> actions,
                  history |-> <<Entry("think", step_count, "", actions)>>,
                  action_repetition_count |-> action_repetition_count]

---------------------------------------------------------------------------
(* The tool-calling flow: web_agent Think and Act under the same graph *)

\* The conditional edge after the tool-calling Think: the stop guards in the
\* order of should_continue_after_think, the decision being the action list.
should_continue_after_tool_think(s) ==
    IF s.completed \/ s.error # "" THEN "done"
    ELSE IF s.consecutive_failures >= FailureCeiling(s) THEN "done"
    ELSE IF s.step_count >= s.max_steps THEN "done"
    ELSE IF s.actions # <<>> THEN "continue"
    ELSE "done"

ToolOracleResponses ==
    { [raises |-> TRUE, tool_calls |-> <<>>, content |-> FALSE] }
    \cup { [raises |-> FALSE, tool_calls |-> c, content |-> FALSE] :
             c \in { <<>>, <<NoAction>>, <<Click(7)>>, <<Click(8)>>, <<Navigate>>, <<DoneAction>> } }
    \cup { [raises |-> FALSE, tool_calls |-> <<>>, content |-> TRUE] }

ToolOutcomes == {"ok", "error", "raise"}

\* What the driver does during one act step: each tool's outcome, whether the
\* state read after the actions works, and the tabs before and after.
ActInputs(s) ==
    { [state_ok |-> TRUE, validation |-> "valid", generated |-> <<>>, dom_errors |-> <<>>,
       fetch_ok |-> f, outcomes |-> o,
       previous_tabs |-> {1}, current_tabs |-> tabs[1], current_target |-> tabs[2]] :
        f \in BOOLEAN,
        o \in [1..Len(s.actions) -> ToolOutcomes],
        tabs \in { <<{1}, 1>>, <<{1, 2}, 1>>, <<{1, 2}, 2>> } }

\* The first action of Think's output when the oracle was asked, else NoAction.
ChosenAction(s, reg, resp) ==
    IF s.browser_session_id = "" \/ ~reg \/ resp.raises THEN NoAction
    ELSE IF NormalizedActions(resp.tool_calls) = <<>> THEN NoAction
    ELSE NormalizedActions(resp.tool_calls)[1]

\* The tool-calling think node followed by its conditional edge.
FullThink ==
    /\ node = "think"
    /\ \E resp \in ToolOracleResponses :
          /\ state' = Merge(state, web_think_node(state, registered, resp))
          /\ choices' = Append(choices, ChosenAction(state, registered, resp))
    /\ think_runs' = think_runs + 1
    /\ route' = should_continue_after_tool_think(state')
    /\ routed_by' = "think"
    /\ node' = EdgeAfterThink(route')
    /\ UNCHANGED <<registered, sent>>

\* The act node followed by the edge act -> think; an exception the node does
\* not catch ends the run.
FullAct ==
    /\ node = "act"
    /\ \E drv \in ActInputs(state) :
          IF ActNodeRaises(state, registered, drv)
          THEN /\ state' = state
               /\ node' = "crashed"
          ELSE /\ state' = Merge(state, act_node(state, registered, drv))
               /\ node' = "think"
    /\ sent' = IF state.browser_session_id # "" /\ registered /\ state.actions # <<>>
               THEN Append(sent, state.actions[1])
               ELSE sent
    /\ UNCHANGED <<route, registered, think_runs, choices, routed_by>>

\* The state in which the first Think runs: INIT has created the session or
\* failed to; the tool-calling Think does not depend on the checklist here.
FullInit ==
    /\ \E ms \in 0..FullStepsBound, created \in BOOLEAN :
          /\ state = [DefaultState EXCEPT !.max_steps = ms,
                                          !.max_failures = MaxFailuresBound,
                                          !.browser_session_id = IF created THEN "sid" ELSE ""]
          /\ registered = created
    /\ node = "think"
    /\ route = ""
    /\ think_runs = 0
    /\ choices = <<>>
    /\ sent = <<>>
    /\ routed_by = ""

FullNext == FullThink \/ FullAct \/ Report \/ CleanupSession

FullSpec == FullInit /\ [][FullNext]_vars

---------------------------------------------------------------------------
(* The routers as functions of an arbitrary workflow state *)

RouterHistoryEntries ==
    { Entry("verify", 0, "fail", <<>>), Entry("verify", 0, "pass", <<>>),
      Entry("think", 0, "", <<>>), Entry("act", 0, "", <<>>) }

RECURSIVE SeqsUpTo(_, _)
SeqsUpTo(S, n) ==
    IF n = 0 THEN {<<>>}
    ELSE LET shorter == SeqsUpTo(S, n - 1)
         IN shorter \cup { Append(q, x) : q \in { r \in shorter : Len(r) = n - 1 }, x \in S }

\* States handed to the router after Think: every combination of the fields
\* the guards read.
ThinkRouterInputs ==
    { [DefaultState EXCEPT
          !.completed = c, !.error = e, !.consecutive_failures = cf,
          !.max_failures = mf, !.final_response_after_failure = fr,
          !.step_count = sc, !.max_steps = ms, !.think_output = t] :
        c \in BOOLEAN, e \in {"", "fault"},
        cf \in 0..(MaxFailuresBound + 2), mf \in 0..MaxFailuresBound, fr \in BOOLEAN,
        sc \in 0..2, ms \in 0..2, t \in {"", "next step"} }

\* States handed to the router after Verify.
VerifyRouterInputs ==
    { [DefaultState EXCEPT
          !.completed = c, !.error = e, !.consecutive_failures = cf,
          !.max_failures = 1, !.final_response_after_failure = fr,
          !.step_count = sc, !.max_steps = 1,
          !.verification_status = v, !.history = h] :
        c \in BOOLEAN, e \in {"", "fault"}, cf \in 0..2, fr \in BOOLEAN,
        sc \in 0..1, v \in {"", "pass", "fail"},
        h \in SeqsUpTo(RouterHistoryEntries, MaxHistoryLen) }

RouterInit ==
    /\ \/ state \in ThinkRouterInputs /\ node = "think_router"
       \/ state \in VerifyRouterInputs /\ node = "verify_router"
    /\ route = ""
    /\ registered = TRUE
    /\ think_runs = 0
    /\ choices = <<>>
    /\ sent = <<>>
    /\ routed_by = ""

RouteAfterThink ==
    /\ node = "think_router"
    /\ route' = should_continue_after_think(state)
    /\ routed_by' = "think"
    /\ node' = EdgeAfterThink(route')
    /\ UNCHANGED <<state, registered, think_runs, choices, sent>>

RouteAfterVerify ==
    /\ node = "verify_router"
    /\ route' = should_continue(state)
    /\ routed_by' = "verify"
    /\ node' = EdgeAfterVerify(route')
    /\ UNCHANGED <<state, registered, think_runs, choices, sent>>

RouterNext == RouteAfterThink \/ RouteAfterVerify

RouterSpec == RouterInit /\ [][RouterNext]_vars

---------------------------------------------------------------------------
(* The Act node on an arbitrary action list *)

Bogus == [action_type |-> "bogus", has_index |-> FALSE, index |-> 0]

\* The action lists handed to Act: up to MaxActions actions, with and without
\* an action type, of known and unknown tools.
ActionLists == SeqsUpTo({Click(7), Navigate, NoAction, Bogus}, MaxActions)

ActInit ==
    /\ \E created \in BOOLEAN, reg \in BOOLEAN, acts \in ActionLists, sc \in 1..2 :
          /\ state = [DefaultState EXCEPT !.browser_session_id = IF created THEN "sid" ELSE "",
                                          !.max_steps = 2,
                                          !.step_count = sc,
                                          !.actions = acts,
                                          !.history = <<Entry("think", sc, "", acts)>>]
          /\ registered = (created /\ reg)
    /\ node = "act"
    /\ route = "continue"
    /\ think_runs = 1
    /\ choices = <<>>
    /\ sent = <<>>
    /\ routed_by = "think"

ActNext == FullAct \/ CleanupSession

ActSpec == ActInit /\ [][ActNext]_vars


---------------------------------------------------------------------------
(* The checklist text (todo.md): web_agent/utils/todo_parser.py *)

\* A checklist text is its sequence of lines, and a line is what the parser's
\* patterns see in it: its kind ("tasks_header" for a line starting '## Tasks'
\* or '## Steps', "other_header" for another '##' line, "item" for
\* '- <box> <text>', "prose" for anything else), whether it is indented, and
\* for an item the checkbox as written and the step text.
Line(kind, indent, box, text) ==
    [kind |-> kind, indent |-> indent, box |-> box, text |-> text]

\* ^-\s+\[(x|X)\]\s+(.+)$
CompletedMatch(line) == line.kind = "item" /\ line.box \in {"[x]", "[X]"}

\* ^-\s+\[\s*\]\s+(.+)$
PendingMatch(line) == line.kind = "item" /\ line.box \in {"[ ]", "[]"}

\* ^-\s+\[\s*[xX]?\s*\]\s+.+$
IsTaskItem(line) ==
    line.kind = "item" /\ line.box \in {"[ ]", "[]", "[x]", "[X]", "[ x]", "[x ]", "[ x ]"}

\* parse_todo_steps, the steps in line order (completed_steps and
\* pending_steps are its two sub-lists): nothing before the tasks header,
\* nothing from the first other header on.
RECURSIVE ParseFrom(_, _, _, _)
ParseFrom(lines, i, started, step_index) ==
    IF i > Len(lines) THEN <<>>
    ELSE LET line == lines[i]
         IN IF line.kind = "tasks_header" THEN ParseFrom(lines, i + 1, TRUE, step_index)
            ELSE IF ~started THEN ParseFrom(lines, i + 1, FALSE, step_index)
            ELSE IF line.kind = "other_header" THEN <<>>
            ELSE IF CompletedMatch(line)
            THEN <<[index |-> step_index, text |-> line.text, completed |-> TRUE]>>
                 \o ParseFrom(lines, i + 1, TRUE, step_index + 1)
            ELSE IF PendingMatch(line)
            THEN <<[index |-> step_index, text |-> line.text, completed |-> FALSE]>>
                 \o ParseFrom(lines, i + 1, TRUE, step_index + 1)
            ELSE ParseFrom(lines, i + 1, TRUE, step_index)

parse_todo_steps(todo_contents) == ParseFrom(todo_contents, 1, FALSE, 0)

completed_steps(todo_contents) ==
    SelectSeq(parse_todo_steps(todo_contents), LAMBDA s : s.completed)

pending_steps(todo_contents) ==
    SelectSeq(parse_todo_steps(todo_contents), LAMBDA s : ~s.completed)

NoStep == [index |-> -1, text |-> <<>>, completed |-> FALSE]

\* The first pending step, NoStep for None.
get_current_step(todo_contents) ==
    IF pending_steps(todo_contents) = <<>> THEN NoStep
    ELSE pending_steps(todo_contents)[1]

\* A progress summary whose current step is the last pending step.
get_todo_progress_last(todo_contents) ==
    LET completed == completed_steps(todo_contents)
        pending == pending_steps(todo_contents)
    IN [total |-> Len(completed) + Len(pending),
        completed |-> Len(completed),
        pending |-> Len(pending),
        current_step |-> IF pending # <<>> THEN pending[Len(pending)] ELSE NoStep,
        all_done |-> Len(pending) = 0]

get_todo_progress(todo_contents) ==
    LET completed == completed_steps(todo_contents)
        pending == pending_steps(todo_contents)
    IN [total |-> Len(completed) + Len(pending),
        completed |-> Len(completed),
        pending |-> Len(pending),
        current_step |-> IF pending # <<>> THEN pending[1] ELSE NoStep,
        all_done |-> Len(pending) = 0]

\* A marking that toggles the checkbox instead of setting it.
MarkedLineToggle(line) ==
    Line("item", FALSE, IF line.box \in {"[x]", "[X]"} THEN "[ ]" ELSE "[x]", line.text)

\* re.sub(r'^(-\s+\[)\s*[xX]?(\])', r'\1x\2', line_stripped): the stripped
\* line, its box rewritten to [x] unless a space follows the x.
MarkedLine(line) ==
    Line("item", FALSE,
         IF line.box \in {"[ ]", "[]", "[x]", "[X]", "[ x]"} THEN "[x]" ELSE line.box,
         line.text)

RECURSIVE MarkFrom(_, _, _, _, _)
MarkFrom(lines, i, started, current_step_index, step_index) ==
    IF i > Len(lines) THEN <<>>
    ELSE LET line == lines[i]
             in_section == IF line.kind = "other_header" THEN FALSE ELSE started
         IN IF line.kind = "tasks_header"
            THEN <<line>> \o MarkFrom(lines, i + 1, TRUE, current_step_index, step_index)
            ELSE IF ~in_section
            THEN <<line>> \o MarkFrom(lines, i + 1, FALSE, current_step_index, step_index)
            ELSE IF IsTaskItem(line)
            THEN <<IF current_step_index = step_index THEN MarkedLine(line) ELSE line>>
                 \o MarkFrom(lines, i + 1, TRUE, current_step_index + 1, step_index)
            ELSE <<line>> \o MarkFrom(lines, i + 1, TRUE, current_step_index, step_index)

mark_step_completed(todo_contents, step_index) ==
    MarkFrom(todo_contents, 1, FALSE, 0, step_index)

\* The line that mark_step_completed rewrites for step_index: the position of
\* the checkbox line it counts as number step_index, 0 when it counts fewer.
RECURSIVE MarkTargetFrom(_, _, _, _, _)
MarkTargetFrom(lines, i, started, current_step_index, step_index) ==
    IF i > Len(lines) THEN 0
    ELSE LET line == lines[i]
             in_section == IF line.kind = "other_header" THEN FALSE ELSE started
         IN IF line.kind = "tasks_header"
            THEN MarkTargetFrom(lines, i + 1, TRUE, current_step_index, step_index)
            ELSE IF ~in_section
            THEN MarkTargetFrom(lines, i + 1, FALSE, current_step_index, step_index)
            ELSE IF IsTaskItem(line)
            THEN IF current_step_index = step_index THEN i
                 ELSE MarkTargetFrom(lines, i + 1, TRUE, current_step_index + 1, step_index)
            ELSE MarkTargetFrom(lines, i + 1, TRUE, current_step_index, step_index)

MarkTarget(todo_contents, step_index) == MarkTargetFrom(todo_contents, 1, FALSE, 0, step_index)

---------------------------------------------------------------------------
(* Think's checklist update: web_agent/nodes/think.py 593-654 *)

\* step_text.strip() in line_stripped: a step text is a sequence of words, and
\* it occurs in a line when it is a contiguous part of the line's text.
Contains(text, part) ==
    \E k \in 0..(Len(text) - Len(part)) : SubSeq(text, k + 1, k + Len(part)) = part

\* The lines Think reads as steps: '- [ ]', '- [x]' or '- [X]' anywhere in
\* the text, whatever the section.
ThinkStepLines(todo_lines) ==
    SelectSeq(todo_lines, LAMBDA line : line.kind = "item" /\ line.box \in {"[ ]", "[x]", "[X]"})

\* todo_steps: the step texts, complete and pending, in line order.
TodoSteps(todo_lines) ==
    [k \in 1..Len(ThinkStepLines(todo_lines)) |-> ThinkStepLines(todo_lines)[k].text]

PendingLinesWith(todo_lines, step_text) ==
    { i \in 1..Len(todo_lines) : /\ todo_lines[i].kind = "item"
                                 /\ todo_lines[i].box = "[ ]"
                                 /\ Contains(todo_lines[i].text, step_text) }

\* The first pending line in which the step text occurs becomes the stripped
\* line with '- [x]'.
MarkFirstMatch(todo_lines, step_text) ==
    IF PendingLinesWith(todo_lines, step_text) = {} THEN todo_lines
    ELSE LET i == CHOOSE j \in PendingLinesWith(todo_lines, step_text) :
                      \A k \in PendingLinesWith(todo_lines, step_text) : j <= k
         IN [todo_lines EXCEPT ![i] = Line("item", FALSE, "[x]", todo_lines[i].text)]

RECURSIVE MarkMatched(_, _, _)
MarkMatched(todo_lines, todo_steps, completed_indices) ==
    IF completed_indices = <<>> THEN todo_lines
    ELSE LET step_idx == Head(completed_indices)
         IN MarkMatched(IF step_idx < Len(todo_steps)
                        THEN MarkFirstMatch(todo_lines, todo_steps[step_idx + 1])
                        ELSE todo_lines,
                        todo_steps, Tail(completed_indices))

\* The text of todo.md after Think's update for the matcher's answer.
ThinkTodoUpdate(todo_contents, completed_indices) ==
    IF TodoSteps(todo_contents) = <<>> THEN todo_contents
    ELSE MarkMatched(todo_contents, TodoSteps(todo_contents), completed_indices)

---------------------------------------------------------------------------
(* The checklist under marking and Think's updates *)

StepTexts == {<<"login">>, <<"login", "page">>}

\* The lines of a checklist: the two headers, a pending item of each text, a
\* complete item written [x], an item written [ x], and an indented complete
\* item written [X].
TodoLines ==
    {Line("tasks_header", FALSE, "", <<>>), Line("other_header", FALSE, "", <<>>)}
    \cup { Line("item", FALSE, "[ ]", text) : text \in StepTexts }
    \cup {Line("item", FALSE, "[x]", <<"login">>),
          Line("item", FALSE, "[ x]", <<"login">>),
          Line("item", TRUE, "[X]", <<"login", "page">>)}

TodoTexts == SeqsUpTo(TodoLines, MaxLines)

\* The matcher's answers: up to MaxMatched distinct indices, in any order,
\* past the last step when the text has fewer than MaxLines steps.
MatcherAnswers ==
    { q \in SeqsUpTo(0..(MaxLines - 1), MaxMatched) : \A a, b \in 1..Len(q) : a # b => q[a] # q[b] }

TodoInit ==
    /\ \E t \in TodoTexts : state = [todo_contents |-> t, op |-> "created", arg |-> <<>>]
    /\ node = "think"
    /\ route = "continue"
    /\ registered = FALSE
    /\ think_runs = 0
    /\ choices = <<>>
    /\ sent = <<>>
    /\ routed_by = "think"

MarkStep ==
    /\ \E step_index \in 0..MaxLines :
          state' = [todo_contents |-> mark_step_completed(state.todo_contents, step_index),
                    op |-> "mark", arg |-> <<step_index>>]
    /\ UNCHANGED <<node, route, registered, think_runs, choices, sent, routed_by>>

ThinkUpdate ==
    /\ \E completed_indices \in MatcherAnswers :
          state' = [todo_contents |-> ThinkTodoUpdate(state.todo_contents, completed_indices),
                    op |-> "think", arg |-> completed_indices]
    /\ UNCHANGED <<node, route, registered, think_runs, choices, sent, routed_by>>

TodoNext == MarkStep \/ ThinkUpdate

TodoSpec == TodoInit /\ [][TodoNext]_vars

---------------------------------------------------------------------------
(* Stability detection after a DOM-changing action: act.py 254-265 *)

\* The identifier sets one sample can return.
ElementIdSets == {{}, {1}, {1, 2}}

\* The last k samples are the same identifier set.
LastSame(samples, k) ==
    /\ Len(samples) >= k
    /\ \A j \in (Len(samples) - k + 1)..Len(samples) : samples[j] = samples[Len(samples)]

\* A detector that asks for one more unchanged sample than the threshold.
StopsSamplingLate(samples, passes, threshold) ==
    Len(samples) >= passes \/ LastSame(samples, threshold + 1)

\* The detector stops once the identifier set is unchanged across threshold
\* consecutive samples, or after passes samples regardless.
StopsSampling(samples, passes, threshold) ==
    Len(samples) >= passes \/ LastSame(samples, threshold)

StabilityInit ==
    /\ \E previous \in ElementIdSets \ {{}} :
          state = [previous_element_ids |-> previous, samples |-> <<>>,
                   returned |-> FALSE, final_element_ids |-> {}, passes_taken |-> 0,
                   new_element_ids |-> {}]
    /\ node = "act"
    /\ route = "continue"
    /\ registered = TRUE
    /\ think_runs = 1
    /\ choices = <<>>
    /\ sent = <<>>
    /\ routed_by = "think"

\* One pass of the detector: a sample of the identifiers of the page.
SamplePass ==
    /\ ~state.returned
    /\ ~StopsSampling(state.samples, max_passes, stability_threshold)
    /\ \E ids \in ElementIdSets : state' = [state EXCEPT !.samples = Append(@, ids)]
    /\ UNCHANGED <<node, route, registered, think_runs, choices, sent, routed_by>>

\* The detector returns the last sample and the number of passes; Act keeps
\* the identifiers that were not there before the action.
ReturnDetected ==
    /\ ~state.returned
    /\ StopsSampling(state.samples, max_passes, stability_threshold)
    /\ state' = [state EXCEPT !.returned = TRUE,
                              !.final_element_ids = state.samples[Len(state.samples)],
                              !.passes_taken = Len(state.samples),
                              !.new_element_ids = state.samples[Len(state.samples)]
                                                     \ state.previous_element_ids]
    /\ UNCHANGED <<node, route, registered, think_runs, choices, sent, routed_by>>

StabilityNext == SamplePass \/ ReturnDetected

StabilitySpec == StabilityInit /\ [][StabilityNext]_vars

---------------------------------------------------------------------------
(* Error detection: qa_agent/utils/error_detector.py *)

\* A text is the set of the phrases that occur in it. Each phrase is matched
\* by a pattern of at most one kind of ERROR_PATTERNS and holds a keyword of
\* at most one bucket of the default classification.
Phrases ==
    {"already registered", "access denied", "not found", "invalid", "timeout",
     "server error", "validation", "permission", "not exist", "connection",
     "failed", "hello"}

\* The kind whose patterns match the phrase, "" for none.
PatternKind(phrase) ==
    CASE phrase = "already registered" -> "already_exists"
      [] phrase = "access denied" -> "permission_denied"
      [] phrase = "not found" -> "not_found"
      [] phrase = "invalid" -> "invalid_input"
      [] phrase = "timeout" -> "network_error"
      [] phrase = "server error" -> "server_error"
      [] OTHER -> ""

\* The bucket of the default classification one of whose keywords occurs in
\* the phrase, "" for none.
KeywordBucket(phrase) ==
    CASE phrase \in {"validation", "invalid"} -> "invalid_input"
      [] phrase \in {"permission", "access denied"} -> "permission_denied"
      [] phrase \in {"not found", "not exist"} -> "not_found"
      [] phrase \in {"connection", "timeout"} -> "network_error"
      [] phrase \in {"server error", "failed"} -> "server_error"
      [] OTHER -> ""

\* The kinds in the order of the keys of ERROR_PATTERNS.
ERROR_PATTERNS ==
    <<"already_exists", "permission_denied", "not_found", "invalid_input",
      "network_error", "server_error">>

\* The buckets in the order of the if/elif chain.
DefaultBuckets ==
    <<"invalid_input", "permission_denied", "not_found", "network_error", "server_error">>

\* re.search(pattern, message_lower) for some pattern of the kind.
PatternMatches(kind, message) == \E phrase \in message : PatternKind(phrase) = kind

\* any(kw in message_lower for kw in [...]) for the bucket's keywords.
KeywordIn(bucket, message) == \E phrase \in message : KeywordBucket(phrase) = bucket

\* The first entry of order that is among the matching ones, otherwise.
RECURSIVE FirstOf(_, _, _, _)
FirstOf(order, i, matching, otherwise) ==
    IF i > Len(order) THEN otherwise
    ELSE IF order[i] \in matching THEN order[i]
    ELSE FirstOf(order, i + 1, matching, otherwise)

\* The kinds a pattern of which matches the message.
MatchingKinds(message) ==
    { ERROR_PATTERNS[i] : i \in { j \in 1..Len(ERROR_PATTERNS) : PatternMatches(ERROR_PATTERNS[j], message) } }

\* The buckets a keyword of which occurs in the message.
MatchingBuckets(message) ==
    { DefaultBuckets[i] : i \in { j \in 1..Len(DefaultBuckets) : KeywordIn(DefaultBuckets[j], message) } }

\* A classification that tries the keyword buckets before the patterns.
classify_keywords_first(message) ==
    FirstOf(DefaultBuckets, 1, MatchingBuckets(message),
            FirstOf(ERROR_PATTERNS, 1, MatchingKinds(message), "generic"))

_classify_error_message(message) ==
    FirstOf(ERROR_PATTERNS, 1, MatchingKinds(message),
            FirstOf(DefaultBuckets, 1, MatchingBuckets(message), "generic"))

_classify_severity(error_type) ==
    IF error_type \in {"permission_denied", "network_error", "server_error"} THEN "high"
    ELSE "medium"

\* None is "".
_suggest_recovery(error_type) ==
    CASE error_type = "already_exists" -> "Try using a different value or switch to login"
      [] error_type = "permission_denied" -> "Check your permissions or sign in with appropriate account"
      [] error_type = "not_found" -> "Navigate to the correct page or verify the URL"
      [] error_type = "invalid_input" -> "Correct the invalid input and try again"
      [] error_type = "network_error" -> "Check your internet connection and retry"
      [] error_type = "server_error" -> "Wait a moment and retry the action"
      [] OTHER -> ""

ExtractedError(path, error_type, message, severity, recovery_hint) ==
    [path |-> path, error_type |-> error_type, message |-> message,
     severity |-> severity, recovery_hint |-> recovery_hint]

\* One error for every kind, in table order, a pattern of which matches.
RECURSIVE ScanFrom(_, _)
ScanFrom(text, i) ==
    IF i > Len(ERROR_PATTERNS) THEN <<>>
    ELSE (IF PatternMatches(ERROR_PATTERNS[i], text)
          THEN <<ExtractedError("dom_text", ERROR_PATTERNS[i], text,
                                _classify_severity(ERROR_PATTERNS[i]),
                                _suggest_recovery(ERROR_PATTERNS[i]))>>
          ELSE <<>>) \o ScanFrom(text, i + 1)

_scan_for_error_patterns(text) == ScanFrom(text, 1)

\* dom.clickable_elements: the texts of the elements with an error indicator.
_find_error_elements(error_elements) ==
    [k \in 1..Len(error_elements) |->
        ExtractedError("error_element", "validation", error_elements[k], "high",
                       "Fix the validation error")]

\* The errors of the recent console errors, one for each.
ConsoleErrors(console_errors) ==
    [k \in 1..Len(console_errors) |->
        ExtractedError("console", _classify_error_message(console_errors[k]), console_errors[k],
                       _classify_severity(_classify_error_message(console_errors[k])),
                       _suggest_recovery(_classify_error_message(console_errors[k])))]

\* The first three console validation errors, each added unless an error with
\* its message is in the list already.
RECURSIVE AddValidationErrors(_, _, _)
AddValidationErrors(errors, console_validation_errors, k) ==
    IF k > Len(console_validation_errors) \/ k > 3 THEN errors
    ELSE AddValidationErrors(
            IF \E j \in 1..Len(errors) : errors[j].message = console_validation_errors[k]
            THEN errors
            ELSE Append(errors, ExtractedError("console_validation", "invalid_input",
                                               console_validation_errors[k], "medium",
                                               "Correct the invalid input and try again")),
            console_validation_errors, k + 1)

\* A detection that scans the DOM whatever the console gave.
extract_errors_from_dom_always_scan(page) ==
    LET errors == AddValidationErrors(ConsoleErrors(page.console_errors),
                                      page.console_validation_errors, 1)
    IN IF ~page.has_dom THEN errors
       ELSE errors \o _scan_for_error_patterns(page.dom_text)
                   \o _find_error_elements(page.error_elements)

\* A page: the recent console errors and console validation errors (texts),
\* whether there is a DOM, its text and the texts of its error elements.
extract_errors_from_dom(page) ==
    LET errors == AddValidationErrors(ConsoleErrors(page.console_errors),
                                      page.console_validation_errors, 1)
    IN IF errors # <<>> THEN errors
       ELSE IF ~page.has_dom THEN <<>>
       ELSE _scan_for_error_patterns(page.dom_text) \o _find_error_elements(page.error_elements)

\* An empty text is a missing field.
extract_errors_from_action_result(action_result) ==
    LET error_msg == action_result.error
        ltm == action_result.long_term_memory
        extracted == action_result.extracted_content
    IN (IF error_msg # {}
        THEN <<ExtractedError("action_error", _classify_error_message(error_msg), error_msg,
                              _classify_severity(_classify_error_message(error_msg)),
                              _suggest_recovery(_classify_error_message(error_msg)))>>
        ELSE <<>>)
       \o (IF ltm \cap {"server error", "failed", "invalid", "not found"} # {}
           THEN <<ExtractedError("long_term_memory", _classify_error_message(ltm), ltm, "medium",
                                 _suggest_recovery(_classify_error_message(ltm)))>>
           ELSE <<>>)
       \o (IF extracted \cap {"invalid", "failed"} # {}
           THEN <<ExtractedError("extracted_content", _classify_error_message(extracted), extracted,
                                 "medium", _suggest_recovery(_classify_error_message(extracted)))>>
           ELSE <<>>)

\* The texts of up to MaxPhrases phrases.
ErrorTexts == { text \in SUBSET Phrases : Cardinality(text) <= MaxPhrases }

\* The texts of the fields that are not the subject of the classification.
SideTexts == {{}, {"hello"}, {"failed", "access denied"}}

Pages ==
    { [console_errors |-> c, console_validation_errors |-> v, has_dom |-> d,
       dom_text |-> x, error_elements |-> e] :
         c \in {<<>>} \cup { <<text>> : text \in ErrorTexts }
                      \cup UNION { {<<text, text>>, <<text, {"hello"}>>} : text \in ErrorTexts },
         v \in {<<>>, <<{"invalid"}>>, <<{"invalid"}, {"invalid"}>>},
         d \in BOOLEAN,
         x \in SideTexts,
         e \in {<<>>, <<{"invalid"}>>} }

ActionResultFields ==
    { [error |-> e, long_term_memory |-> l, extracted_content |-> x] :
         e \in ErrorTexts, l \in SideTexts, x \in SideTexts }

NoPage ==
    [console_errors |-> <<>>, console_validation_errors |-> <<>>, has_dom |-> FALSE,
     dom_text |-> {}, error_elements |-> <<>>]

DetectInit ==
    /\ state = [errors |-> <<>>, source |-> "none", page |-> NoPage]
    /\ node = "act"
    /\ route = "continue"
    /\ registered = TRUE
    /\ think_runs = 1
    /\ choices = <<>>
    /\ sent = <<>>
    /\ routed_by = "think"

\* Each detection starts from an empty list of errors.
ExtractFromDom ==
    /\ state.source = "none"
    /\ \E page \in Pages : state' = [errors |-> extract_errors_from_dom(page), source |-> "dom", page |-> page]
    /\ UNCHANGED <<node, route, registered, think_runs, choices, sent, routed_by>>

ExtractFromActionResult ==
    /\ state.source = "none"
    /\ \E action_result \in ActionResultFields :
          state' = [errors |-> extract_errors_from_action_result(action_result),
                    source |-> "action_result", page |-> NoPage]
    /\ UNCHANGED <<node, route, registered, think_runs, choices, sent, routed_by>>

\* The caller has taken the errors; the next detection starts afresh.
ErrorsTaken ==
    /\ state.source # "none"
    /\ state' = [errors |-> <<>>, source |-> "none", page |-> NoPage]
    /\ UNCHANGED <<node, route, registered, think_runs, choices, sent, routed_by>>

DetectNext == ExtractFromDom \/ ExtractFromActionResult \/ ErrorsTaken

DetectSpec == DetectInit /\ [][DetectNext]_vars

---------------------------------------------------------------------------
(* Page validation: qa_agent/utils/page_context.py *)

\* The hints _extract_text_elements can put in visible_text_elements.
TextHints == {"login", "submit", "email_field", "password_field", "search"}

\* The page type the URL path matches, "none" for none.
UrlPageTypes == {"none", "auth", "registration", "search", "checkout", "profile", "dashboard"}

\* len(selector_map): every element has one type.
ElementCount(page) ==
    page.element_types.input + page.element_types.button + page.element_types.form
       + page.element_types.a + page.element_types.payment + page.element_types.other

infer_current_page(page) ==
    LET visible_elements == page.visible_text_elements
        has_password_field == "password" \in visible_elements
        has_email_field == "email_field" \in visible_elements
        has_username_field == "username" \in visible_elements
        has_address_field == "address" \in visible_elements
        has_payment_field == "payment" \in visible_elements
        has_search_field == "search" \in visible_elements
        input_count == page.element_types.input
        button_count == page.element_types.button
        form_count == page.element_types.form
        link_count == page.element_types.a
        element_count == ElementCount(page)
    IN CASE page.matched_page_type = "auth" ->
               (IF (has_email_field \/ has_username_field) /\ has_password_field /\ button_count > 0
                THEN "login"
                ELSE IF input_count > 3 /\ button_count > 0 THEN "signup"
                ELSE "auth_page")
         [] page.matched_page_type = "registration" -> "signup"
         [] page.matched_page_type = "search" -> "search"
         [] page.matched_page_type = "checkout" ->
               (IF has_email_field \/ has_address_field \/ has_payment_field
                THEN "checkout" ELSE "commerce_page")
         [] page.matched_page_type = "profile" -> "profile"
         [] page.matched_page_type = "dashboard" -> "dashboard"
         [] OTHER ->
               IF (has_email_field \/ has_username_field) /\ has_password_field THEN "login"
               ELSE IF input_count >= 3 /\ (has_email_field \/ has_password_field) THEN "signup"
               ELSE IF has_address_field \/ has_payment_field THEN "checkout"
               ELSE IF has_search_field /\ element_count > 10 THEN "search"
               ELSE IF form_count > 0 /\ input_count >= 2 THEN "form_page"
               ELSE IF link_count > 10 /\ element_count > 20 THEN "content_page"
               ELSE IF element_count >= 5 /\ link_count >= 3 /\ button_count >= 2 THEN "main_page"
               ELSE IF element_count < 5 THEN "simple_page"
               ELSE "unknown"

\* A step text is the set of the keyword phrases that occur in it; the
\* actions of action_keywords a phrase brings with it.
StepWords ==
    {"login", "create account", "register", "email", "password", "search", "checkout",
     "profile", "go to", "credentials"}

WordActions(word) ==
    CASE word = "login" -> {"login"}
      [] word = "create account" -> {"signup", "profile"}
      [] word = "register" -> {"signup"}
      [] word = "email" -> {"email"}
      [] word = "password" -> {"password"}
      [] word = "search" -> {"search"}
      [] word = "checkout" -> {"checkout"}
      [] word = "profile" -> {"profile"}
      [] word = "go to" -> {"navigate"}
      [] OTHER -> {}

StepActions(step_text) == UNION { WordActions(word) : word \in step_text }

\* action_to_page_patterns; navigate has none.
PagePatterns(action) ==
    CASE action = "login" -> {"login", "auth_page"}
      [] action = "signup" -> {"signup", "auth_page", "registration"}
      [] action = "email" -> {"login", "signup", "checkout", "profile", "form_page"}
      [] action = "password" -> {"login", "signup", "auth_page"}
      [] action = "search" -> {"search", "main_page", "content_page"}
      [] action = "checkout" -> {"checkout", "commerce_page"}
      [] action = "profile" -> {"profile", "dashboard"}
      [] OTHER -> {}

\* element_availability: the actions that are its keys and whose element is
\* among the key elements.
ElementAvailable(action, key_elements) ==
    \/ action = "email" /\ "email_field" \in key_elements
    \/ action = "password" /\ "password_field" \in key_elements
    \/ action = "search" /\ "search" \in key_elements
    \/ action = "address" /\ "address_field" \in key_elements
    \/ action = "payment" /\ "payment_field" \in key_elements
    \/ action = "username" /\ "username" \in key_elements

\* A validation that rejects navigation from pages it does not know.
validate_navigate_checked(page, step_text) ==
    LET step_actions == StepActions(step_text)
        expected_pages == UNION { PagePatterns(action) : action \in step_actions }
    IN IF expected_pages # {} /\ infer_current_page(page) \in expected_pages
       THEN [valid |-> TRUE, reason |-> "correct_page"]
       ELSE IF step_actions = {"navigate"} /\ infer_current_page(page) # "unknown"
       THEN [valid |-> TRUE, reason |-> "navigation"]
       ELSE [valid |-> FALSE, reason |-> "mismatch"]

validate_against_todo_step(page, step_text) ==
    LET step_actions == StepActions(step_text)
        inferred_page == infer_current_page(page)
        key_elements == page.visible_text_elements
        element_types == page.element_types
        expected_pages == UNION { PagePatterns(action) : action \in step_actions }
    IN IF step_actions = {"navigate"} THEN [valid |-> TRUE, reason |-> "navigation"]
       ELSE IF expected_pages # {} /\ inferred_page \in expected_pages
       THEN [valid |-> TRUE, reason |-> "correct_page"]
       ELSE IF \E action \in step_actions : ElementAvailable(action, key_elements)
       THEN [valid |-> TRUE, reason |-> "required_elements"]
       ELSE IF "email" \in step_actions /\ element_types.form > 0
       THEN [valid |-> TRUE, reason |-> "form_page"]
       ELSE IF "checkout" \in step_actions /\ (element_types.payment > 0 \/ element_types.form > 1)
       THEN [valid |-> TRUE, reason |-> "commerce_page"]
       ELSE IF "search" \in step_actions /\ element_types.input > 0
       THEN [valid |-> TRUE, reason |-> "input_elements"]
       ELSE [valid |-> FALSE, reason |-> "mismatch"]

\* action_to_page of suggest_recovery: the page of the first of its keywords,
\* in the order of the dict, that occurs in the step text; "" for none.
TargetPage(step_text) ==
    IF "login" \in step_text THEN "login"
    ELSE IF "register" \in step_text THEN "signup"
    ELSE IF "search" \in step_text THEN "search"
    ELSE IF "checkout" \in step_text THEN "checkout"
    ELSE IF "profile" \in step_text THEN "profile"
    ELSE ""

\* A suggestion only for steps whose target page is known.
suggest_recovery_targets_only(page, step_text) ==
    IF validate_against_todo_step(page, step_text).valid THEN ""
    ELSE IF TargetPage(step_text) = "" THEN ""
    ELSE IF infer_current_page(page) = TargetPage(step_text) THEN ""
    ELSE "Navigate to target page"

\* suggest_recovery(current_step) (no last_action is passed), "" for None.
suggest_recovery(page, step_text) ==
    LET current_page == infer_current_page(page)
        target_page == TargetPage(step_text)
    IN IF validate_against_todo_step(page, step_text).valid THEN ""
       ELSE IF target_page # ""
       THEN IF current_page = target_page THEN ""
            ELSE IF target_page = "login" /\ current_page \in {"home", "main_page", "signup"}
            THEN "Navigate back to login page"
            ELSE IF target_page = "signup" /\ current_page \in {"home", "main_page", "login"}
            THEN "Navigate to signup page"
            ELSE IF target_page = "search" /\ current_page \in {"home", "main_page", "dashboard"}
            THEN "Navigate to or open search"
            ELSE IF target_page = "checkout" /\ current_page \in {"main_page", "home", "content_page"}
            THEN "Navigate to checkout"
            ELSE IF target_page = "profile" /\ current_page \in {"dashboard", "main_page"}
            THEN "Navigate to profile page"
            ELSE "Navigate from current to target page"
       ELSE IF current_page = "unknown" THEN "Cannot determine current page"
       ELSE "Currently on another page"

\* validate_page_context of the wrapper for a checklist with a current step:
\* a navigation step is not validated.
validate_page_context(page, step_text) ==
    IF "go to" \in step_text
    THEN [is_valid |-> TRUE, inferred_page |-> "unknown", recovery_suggestion |-> ""]
    ELSE IF ~validate_against_todo_step(page, step_text).valid
    THEN [is_valid |-> FALSE, inferred_page |-> infer_current_page(page),
          recovery_suggestion |-> suggest_recovery(page, step_text)]
    ELSE [is_valid |-> TRUE, inferred_page |-> infer_current_page(page),
          recovery_suggestion |-> ""]

\* if not is_page_valid and recovery_suggestion: the wrapper returns the
\* mismatch without generating or executing an action.
ShortCircuits(validation) == ~validation.is_valid /\ validation.recovery_suggestion # ""

\* The pages: every URL page type, every set of three of the hints, and for
\* each element type a count on each side of the thresholds the code tests.
PageSignatures ==
    { [matched_page_type |-> u, visible_text_elements |-> v,
       element_types |-> [input |-> i, button |-> b, form |-> f, a |-> l, payment |-> y, other |-> o]] :
         u \in UrlPageTypes, v \in SUBSET {"email_field", "password_field", "search"},
         i \in {0, 2, 4}, b \in {0, 2}, f \in {0, 2}, l \in {0, 11}, y \in {0, 1}, o \in {0, 10} }

StepTextsToValidate == { s \in SUBSET StepWords : Cardinality(s) <= MaxStepWords }

NoSignature ==
    [matched_page_type |-> "none", visible_text_elements |-> {},
     element_types |-> [input |-> 0, button |-> 0, form |-> 0, a |-> 0, payment |-> 0, other |-> 0]]

NoValidation == [is_valid |-> TRUE, inferred_page |-> "unknown", recovery_suggestion |-> ""]

PageInit ==
    /\ state = [validated |-> FALSE, page |-> NoSignature, step_text |-> {},
                is_valid |-> FALSE, reason |-> "", inferred_page |-> "",
                page_validation |-> NoValidation, short_circuit |-> FALSE]
    /\ node = "act"
    /\ route = "continue"
    /\ registered = TRUE
    /\ think_runs = 1
    /\ choices = <<>>
    /\ sent = <<>>
    /\ routed_by = "think"

\* Act validates the current page against the current step.
ValidatePage ==
    /\ ~state.validated
    /\ \E page \in PageSignatures, step_text \in StepTextsToValidate :
          state' = [validated |-> TRUE, page |-> page, step_text |-> step_text,
                    is_valid |-> validate_against_todo_step(page, step_text).valid,
                    reason |-> validate_against_todo_step(page, step_text).reason,
                    inferred_page |-> infer_current_page(page),
                    page_validation |-> validate_page_context(page, step_text),
                    short_circuit |-> ShortCircuits(validate_page_context(page, step_text))]
    /\ UNCHANGED <<node, route, registered, think_runs, choices, sent, routed_by>>

\* The next step starts from a fresh browser state.
NextValidation ==
    /\ state.validated
    /\ state' = [validated |-> FALSE, page |-> NoSignature, step_text |-> {},
                 is_valid |-> FALSE, reason |-> "", inferred_page |-> "",
                 page_validation |-> NoValidation, short_circuit |-> FALSE]
    /\ UNCHANGED <<node, route, registered, think_runs, choices, sent, routed_by>>

PageNext == ValidatePage \/ NextValidation

PageSpec == PageInit /\ [][PageNext]_vars

---------------------------------------------------------------------------
(* The browser tools: web_agent/tools/browser_actions.py *)

BROWSER_TOOLS ==
    {"navigate", "search", "go_back", "wait", "click", "input_text", "select_dropdown",
     "toggle_checkbox", "extract_content", "find_text", "screenshot", "scroll", "switch_tab",
     "close_tab", "upload_file", "write_file", "read_file", "send_keys",
     "evaluate_javascript", "done"}

\* The name of the Tools method behind a tool.
ACTION_NAME_MAP(action_key) ==
    CASE action_key = "toggle_checkbox" -> "checkbox"
      [] action_key = "extract_content" -> "extract"
      [] action_key = "switch_tab" -> "switch"
      [] action_key = "close_tab" -> "close"
      [] action_key = "evaluate_javascript" -> "evaluate"
      [] action_key = "input_text" -> "input"
      [] OTHER -> action_key

FILE_SYSTEM_ACTIONS == {"extract", "write_file", "read_file", "replace_file", "done"}

PAGE_EXTRACTION_ACTIONS == {"extract"}

\* The arguments of a call: its string argument (empty, blank or not), its
\* element index and whether its scroll direction is one of the four.
ToolArguments ==
    [text : {"", " ", "x"}, index : {-1, 0, 1}, direction_ok : BOOLEAN]

\* The checks a tool makes on its arguments before _execute_action: TRUE when
\* it raises ValueError.
RaisesValueError(tool, args) ==
    CASE tool = "click" -> args.index <= 0
      [] tool \in {"input_text", "toggle_checkbox"} -> args.index < 0
      [] tool \in {"select_dropdown", "upload_file"} -> args.index < 0 \/ args.text = ""
      [] tool \in {"extract_content", "find_text", "evaluate_javascript"} -> args.text \in {"", " "}
      [] tool = "scroll" -> ~args.direction_ok
      [] tool \in {"switch_tab", "close_tab", "write_file", "read_file", "send_keys"} -> args.text = ""
      [] OTHER -> FALSE

\* The ambient context: none, or what it holds.
NoContext == [set |-> FALSE, has_method |-> FALSE, file_system |-> FALSE, page_extraction_llm |-> FALSE]

ToolContexts ==
    {NoContext} \cup [set : {TRUE}, has_method : BOOLEAN, file_system : BOOLEAN,
                      page_extraction_llm : BOOLEAN]

Outcome(raised, awaited) == [raised |-> raised, awaited |-> awaited]

\* An execution that does not ask for the file system.
_execute_action_no_file_check(action_key, ctx, result_type) ==
    IF ~ctx.set THEN Outcome("BrowserToolExecutionError", FALSE)
    ELSE IF ~ctx.has_method THEN Outcome("BrowserToolExecutionError", FALSE)
    ELSE IF ACTION_NAME_MAP(action_key) \in PAGE_EXTRACTION_ACTIONS /\ ~ctx.page_extraction_llm
    THEN Outcome("BrowserToolExecutionError", FALSE)
    ELSE IF result_type \notin {"ActionResult", "str", "dict"}
    THEN Outcome("BrowserToolExecutionError", TRUE)
    ELSE Outcome("", TRUE)

_execute_action(action_key, ctx, result_type) ==
    LET action_name == ACTION_NAME_MAP(action_key)
    IN IF ~ctx.set THEN Outcome("BrowserToolExecutionError", FALSE)
       ELSE IF ~ctx.has_method THEN Outcome("BrowserToolExecutionError", FALSE)
       ELSE IF action_name \in FILE_SYSTEM_ACTIONS /\ ~ctx.file_system
       THEN Outcome("BrowserToolExecutionError", FALSE)
       ELSE IF action_name \in PAGE_EXTRACTION_ACTIONS /\ ~ctx.page_extraction_llm
       THEN Outcome("BrowserToolExecutionError", FALSE)
       ELSE IF result_type \notin {"ActionResult", "str", "dict"}
       THEN Outcome("BrowserToolExecutionError", TRUE)
       ELSE Outcome("", TRUE)

\* A tool: its argument checks, then _execute_action.
InvokeTool(tool, args, ctx, result_type) ==
    IF RaisesValueError(tool, args) THEN Outcome("ValueError", FALSE)
    ELSE _execute_action(tool, ctx, result_type)

NoArguments == [text |-> "x", index |-> 1, direction_ok |-> TRUE]

ToolInit ==
    /\ state = [called |-> FALSE, tool |-> "", args |-> NoArguments, ctx |-> NoContext,
                raised |-> "", awaited |-> FALSE]
    /\ node = "act"
    /\ route = "continue"
    /\ registered = TRUE
    /\ think_runs = 1
    /\ choices = <<>>
    /\ sent = <<>>
    /\ routed_by = "think"

CallTool ==
    /\ ~state.called
    /\ \E tool \in BROWSER_TOOLS, args \in ToolArguments, ctx \in ToolContexts,
          result_type \in {"ActionResult", "str", "dict", "other"} :
          state' = [called |-> TRUE, tool |-> tool, args |-> args, ctx |-> ctx,
                    raised |-> InvokeTool(tool, args, ctx, result_type).raised,
                    awaited |-> InvokeTool(tool, args, ctx, result_type).awaited]
    /\ UNCHANGED <<node, route, registered, think_runs, choices, sent, routed_by>>

\* The call is over; the next one starts.
ToolReturned ==
    /\ state.called
    /\ state' = [called |-> FALSE, tool |-> "", args |-> NoArguments, ctx |-> NoContext,
                 raised |-> "", awaited |-> FALSE]
    /\ UNCHANGED <<node, route, registered, think_runs, choices, sent, routed_by>>

ToolNext == CallTool \/ ToolReturned

ToolSpec == ToolInit /\ [][ToolNext]_vars

---------------------------------------------------------------------------
(* Tool call normalisation: web_agent/nodes/think.py 36-60, 916-921 *)

\* A tool call as the oracle library hands it over: None, a dict or an
\* object, with a name (missing, empty or not), args (missing, None, a dict,
\* or a value that is no dict) and an id (missing or not).
ToolCall(form, name, args, id) == [form |-> form, name |-> name, args |-> args, id |-> id]

ToolCallValues ==
    {ToolCall("none", "missing", "missing", "missing")}
    \cup { ToolCall(form, name, args, id) :
             form \in {"dict", "object"}, name \in {"missing", "", "click"},
             args \in {"missing", "None", "{index: 5}", "[5]"}, id \in {"missing", "call-1"} }

\* The empty dict.
EmptyAction == [action_type |-> "", params |-> "", tool_call_id |-> ""]

\* tool_call.get('args') or {} / getattr(tool_call, 'args', {}) or {}, then
\* {} unless a dict.
ArgsOf(tool_call) == IF tool_call.args = "{index: 5}" THEN tool_call.args ELSE "{}"

\* A normalisation that keeps the args of an object as they are.
_tool_call_to_action_raw_object_args(tool_call) ==
    IF tool_call.form = "none" THEN EmptyAction
    ELSE IF tool_call.name \in {"missing", ""} THEN EmptyAction
    ELSE [action_type |-> tool_call.name,
          params |-> IF tool_call.form = "object" THEN tool_call.args ELSE ArgsOf(tool_call),
          tool_call_id |-> IF tool_call.id = "missing" THEN "None" ELSE tool_call.id]

_tool_call_to_action(tool_call) ==
    IF tool_call.form = "none" THEN EmptyAction
    ELSE IF tool_call.name \in {"missing", ""} THEN EmptyAction
    ELSE [action_type |-> tool_call.name,
          params |-> ArgsOf(tool_call),
          tool_call_id |-> IF tool_call.id = "missing" THEN "None" ELSE tool_call.id]

\* The loop of Think over raw_tool_calls.
RECURSIVE ActionsOfToolCalls(_)
ActionsOfToolCalls(raw_tool_calls) ==
    IF raw_tool_calls = <<>> THEN <<>>
    ELSE (IF _tool_call_to_action(Head(raw_tool_calls)).action_type # ""
          THEN <<_tool_call_to_action(Head(raw_tool_calls))>>
          ELSE <<>>) \o ActionsOfToolCalls(Tail(raw_tool_calls))

NormalizeInit ==
    /\ state = [normalized |-> FALSE, raw_tool_calls |-> <<>>, actions |-> <<>>]
    /\ node = "think"
    /\ route = "continue"
    /\ registered = TRUE
    /\ think_runs = 0
    /\ choices = <<>>
    /\ sent = <<>>
    /\ routed_by = "think"

NormalizeToolCalls ==
    /\ ~state.normalized
    /\ \E raw_tool_calls \in SeqsUpTo(ToolCallValues, MaxToolCalls) :
          state' = [normalized |-> TRUE, raw_tool_calls |-> raw_tool_calls,
                    actions |-> ActionsOfToolCalls(raw_tool_calls)]
    /\ UNCHANGED <<node, route, registered, think_runs, choices, sent, routed_by>>

\* The next Think starts with an empty action list.
NextResponse ==
    /\ state.normalized
    /\ state' = [normalized |-> FALSE, raw_tool_calls |-> <<>>, actions |-> <<>>]
    /\ UNCHANGED <<node, route, registered, think_runs, choices, sent, routed_by>>

NormalizeNext == NormalizeToolCalls \/ NextResponse

NormalizeSpec == NormalizeInit /\ [][NormalizeNext]_vars

---------------------------------------------------------------------------
(* The wait after the actions of a batch: web_agent/nodes/act.py 28-30, 233-270 *)

PAGE_CHANGING_ACTIONS == {"navigate", "switch", "switch_tab", "go_back"}

DOM_CHANGING_ACTIONS == {"click", "input_text", "scroll", "toggle_checkbox", "select_dropdown"}

has_page_changing_action(executed_actions) ==
    \E k \in 1..Len(executed_actions) : executed_actions[k].action_type \in PAGE_CHANGING_ACTIONS

has_dom_changing_action(executed_actions) ==
    \E k \in 1..Len(executed_actions) : executed_actions[k].action_type \in DOM_CHANGING_ACTIONS

\* The wait act_node makes after the batch: detect_dom_changes_adaptively
\* ("poll_elements") or wait_for_dom_stability with max_wait_seconds 3.0
\* ("network").
StabilityWait(executed_actions, previous_element_ids) ==
    IF has_dom_changing_action(executed_actions) /\ previous_element_ids # {}
    THEN "poll_elements"
    ELSE "network"

\* The batches of executed actions: page-changing, DOM-changing and other
\* actions, up to MaxActions of them.
ExecutedBatches ==
    SeqsUpTo({ [action_type |-> a] :
                 a \in {"navigate", "go_back", "click", "input_text", "scroll", "extract"} },
             MaxActions)

WaitInit ==
    /\ state = [waited |-> FALSE, executed_actions |-> <<>>, previous_element_ids |-> {},
                wait |-> "none"]
    /\ node = "act"
    /\ route = "continue"
    /\ registered = TRUE
    /\ think_runs = 0
    /\ choices = <<>>
    /\ sent = <<>>
    /\ routed_by = "think"

\* The end of an Act step: the batch has been executed, the wait is made.
WaitAfterActions ==
    /\ ~state.waited
    /\ \E executed_actions \in ExecutedBatches, previous_element_ids \in ElementIdSets :
          state' = [waited |-> TRUE, executed_actions |-> executed_actions,
                    previous_element_ids |-> previous_element_ids,
                    wait |-> StabilityWait(executed_actions, previous_element_ids)]
    /\ UNCHANGED <<node, route, registered, think_runs, choices, sent, routed_by>>

\* The next Act step starts.
NextBatch ==
    /\ state.waited
    /\ state' = [waited |-> FALSE, executed_actions |-> <<>>, previous_element_ids |-> {},
                 wait |-> "none"]
    /\ UNCHANGED <<node, route, registered, think_runs, choices, sent, routed_by>>

WaitNext == WaitAfterActions \/ NextBatch

WaitSpec == WaitInit /\ [][WaitNext]_vars

---------------------------------------------------------------------------
(* The error context of the feedback: web_agent/nodes/act_wrapper.py 337-397 *)

\* The errors a page scan can return, by type and severity.
ScanErrors ==
    { [type |-> "invalid_input", severity |-> "medium"],
      [type |-> "not_found", severity |-> "medium"],
      [type |-> "server_error", severity |-> "high"],
      [type |-> "network_error", severity |-> "high"] }

\* The action results of a batch, as far as the error extraction reads them.
BatchResults == SeqsUpTo({[error |-> ""], [error |-> "tool error"]}, MaxErrors)

FeedbackInit ==
    /\ state = [built |-> FALSE, dom_errors |-> <<>>, action_results |-> <<>>,
                detected_errors |-> <<>>]
    /\ node = "act"
    /\ route = "continue"
    /\ registered = TRUE
    /\ think_runs = 0
    /\ choices = <<>>
    /\ sent = <<>>
    /\ routed_by = "think"

\* The wrapper builds the feedback from the page scan and the action results.
BuildFeedback ==
    /\ ~state.built
    /\ \E dom_errors \in SeqsUpTo(ScanErrors, MaxErrors), action_results \in BatchResults :
          state' = [built |-> TRUE, dom_errors |-> dom_errors,
                    action_results |-> action_results,
                    detected_errors |-> DetectedErrors(dom_errors, action_results)]
    /\ UNCHANGED <<node, route, registered, think_runs, choices, sent, routed_by>>

\* Think has read the feedback; the next Act starts.
FeedbackRead ==
    /\ state.built
    /\ state' = [built |-> FALSE, dom_errors |-> <<>>, action_results |-> <<>>,
                 detected_errors |-> <<>>]
    /\ UNCHANGED <<node, route, registered, think_runs, choices, sent, routed_by>>

FeedbackNext == BuildFeedback \/ FeedbackRead

FeedbackSpec == FeedbackInit /\ [][FeedbackNext]_vars

---------------------------------------------------------------------------
(* The ambient tool context: act.py 161-188, browser_actions.py 35-80 *)

\* The Act nodes that run at the same time, one asyncio task each.
Tasks == {"task_a", "task_b"}

\* _CONTEXT is a ContextVar: every task reads and writes its own value, None
\* ("none") by default.
get_browser_tool_context(contexts, task) == contexts[task]

\* _CONTEXT.set(ctx): the token holds the value replaced.
set_browser_tool_context(contexts, task, ctx) ==
    [contexts |-> [contexts EXCEPT ![task] = ctx], token |-> contexts[task]]

\* A reset that is skipped when the tool raised (no finally).
reset_unless_raised(contexts, task, token, outcome) ==
    IF outcome = "raise" THEN contexts ELSE [contexts EXCEPT ![task] = token]

\* finally: reset_browser_tool_context(token), whatever the outcome.
reset_browser_tool_context(contexts, task, token, outcome) ==
    [contexts EXCEPT ![task] = token]

ContextInit ==
    /\ state = [pc |-> [task \in Tasks |-> "idle"],
                remaining |-> [task \in Tasks |-> 0],
                contexts |-> [task \in Tasks |-> "none"],
                token |-> [task \in Tasks |-> "none"],
                seen |-> [task \in Tasks |-> "none"],
                outcome |-> [task \in Tasks |-> "none"],
                raised |-> [task \in Tasks |-> FALSE]]
    /\ node = "act"
    /\ route = "continue"
    /\ registered = TRUE
    /\ think_runs = 0
    /\ choices = <<>>
    /\ sent = <<>>
    /\ routed_by = "think"

\* act_node is entered with a batch of actions.
EnterAct(task) ==
    /\ state.pc[task] = "idle"
    /\ \E n \in 1..MaxActions :
          state' = [state EXCEPT !.pc[task] = "loop", !.remaining[task] = n,
                                 !.raised[task] = FALSE]
    /\ UNCHANGED <<node, route, registered, think_runs, choices, sent, routed_by>>

\* token = set_browser_tool_context(ctx); the invocation is awaited.
SetContext(task) ==
    /\ state.pc[task] = "loop" /\ state.remaining[task] > 0
    /\ LET set == set_browser_tool_context(state.contexts, task, task)
       IN state' = [state EXCEPT !.pc[task] = "awaiting",
                                 !.contexts = set.contexts,
                                 !.token[task] = set.token]
    /\ UNCHANGED <<node, route, registered, think_runs, choices, sent, routed_by>>

\* The tool runs: it reads the context, then returns or raises.
ToolRuns(task) ==
    /\ state.pc[task] = "awaiting"
    /\ \E outcome \in {"return", "raise"} :
          state' = [state EXCEPT !.pc[task] = "finally",
                                 !.seen[task] = get_browser_tool_context(state.contexts, task),
                                 !.outcome[task] = outcome,
                                 !.raised[task] = state.raised[task] \/ outcome = "raise"]
    /\ UNCHANGED <<node, route, registered, think_runs, choices, sent, routed_by>>

\* The finally clause, then the next action of the batch.
ResetContext(task) ==
    /\ state.pc[task] = "finally"
    /\ state' = [state EXCEPT !.pc[task] = "loop",
                              !.remaining[task] = state.remaining[task] - 1,
                              !.contexts = reset_browser_tool_context(state.contexts, task,
                                              state.token[task], state.outcome[task])]
    /\ UNCHANGED <<node, route, registered, think_runs, choices, sent, routed_by>>

\* act_node returns.
LeaveAct(task) ==
    /\ state.pc[task] = "loop" /\ state.remaining[task] = 0
    /\ state' = [state EXCEPT !.pc[task] = "idle"]
    /\ UNCHANGED <<node, route, registered, think_runs, choices, sent, routed_by>>

ContextNext ==
    \E task \in Tasks :
       EnterAct(task) \/ SetContext(task) \/ ToolRuns(task) \/ ResetContext(task) \/ LeaveAct(task)

ContextSpec == ContextInit /\ [][ContextNext]_vars

---------------------------------------------------------------------------
(* Chrome screencast streaming: api/routes/browser_stream.py 136-165,
   web_agent/browser/providers/chrome_streaming.py *)

Viewers == 1..MaxViewers

\* ChromeStreamingServer.__init__: no client, screencast not enabled.
NewServer == [has_client |-> FALSE, screencast_enabled |-> FALSE]

\* The route makes a ChromeStreamingServer of its own for every websocket,
\* over the CDP client of the one browser session; the CDP calls succeed.
StreamInit ==
    /\ state = [viewer |-> [v \in Viewers |-> "closed"],
                server |-> [v \in Viewers |-> NewServer],
                screencast_running |-> FALSE]
    /\ node = "end"
    /\ route = "continue"
    /\ registered = TRUE
    /\ think_runs = 0
    /\ choices = <<>>
    /\ sent = <<>>
    /\ routed_by = "think"

\* A websocket connects: a new server, add_client, and start_screencast as
\* the new server's flag is false.
ViewerConnects(v) ==
    /\ state.viewer[v] = "closed"
    /\ state' = [state EXCEPT !.viewer[v] = "open",
                              !.server[v] = [has_client |-> TRUE, screencast_enabled |-> TRUE],
                              !.screencast_running = TRUE]
    /\ UNCHANGED <<node, route, registered, think_runs, choices, sent, routed_by>>

\* _on_screencast_frame of a server whose send to its client fails: the
\* client is discarded, the screencast and the flag stay.
FrameSendFails(v) ==
    /\ state.screencast_running
    /\ state.server[v].screencast_enabled /\ state.server[v].has_client
    /\ state' = [state EXCEPT !.server[v].has_client = FALSE]
    /\ UNCHANGED <<node, route, registered, think_runs, choices, sent, routed_by>>

\* The websocket's loop ends (disconnect or receive error): remove_client in
\* the finally clause; stop_screencast when the server has no client left and
\* its flag is set.
ViewerDisconnects(v) ==
    /\ state.viewer[v] = "open"
    /\ state' = [state EXCEPT !.viewer[v] = "closed",
                              !.server[v] = NewServer,
                              !.screencast_running =
                                  IF state.server[v].screencast_enabled THEN FALSE ELSE @]
    /\ UNCHANGED <<node, route, registered, think_runs, choices, sent, routed_by>>

StreamNext ==
    \E v \in Viewers : ViewerConnects(v) \/ FrameSendFails(v) \/ ViewerDisconnects(v)

StreamSpec == StreamInit /\ [][StreamNext]_vars

---------------------------------------------------------------------------
(* Browser provider selection: web_agent/utils/browser_manager.py,
   web_agent/browser/providers/__init__.py *)

\* The values of settings.browser_provider, lower-cased; "firefox" stands for
\* a name that is not supported.
ProviderSettings == {"onkernal", "chrome", "firefox"}

\* get_browser_provider: the provider class for the setting, "raise" for the
\* ValueError.
get_browser_provider(browser_provider) ==
    IF browser_provider = "onkernal" THEN "OnKernalProvider"
    ELSE IF browser_provider = "chrome" THEN "ChromeProvider"
    ELSE "raise"

\* _provider_instance is None ("none") when the module is loaded.
ProviderInit ==
    /\ state = [browser_provider |-> "onkernal", provider_instance |-> "none",
                sessions |-> <<>>, raised |-> FALSE]
    /\ node = "init"
    /\ route = "continue"
    /\ registered = FALSE
    /\ think_runs = 0
    /\ choices = <<>>
    /\ sent = <<>>
    /\ routed_by = "think"

\* The setting changes between two calls.
ChangeSetting ==
    /\ \E browser_provider \in ProviderSettings :
          /\ browser_provider # state.browser_provider
          /\ state' = [state EXCEPT !.browser_provider = browser_provider]
    /\ UNCHANGED <<node, route, registered, think_runs, choices, sent, routed_by>>

\* create_browser_session: the provider is made when _provider_instance is
\* None and kept; the session is created by _provider_instance. Each session
\* is recorded with its provider and the setting at the time of the call.
CreateBrowserSession ==
    /\ Len(state.sessions) < MaxSessions
    /\ LET made == IF state.provider_instance = "none"
                   THEN get_browser_provider(state.browser_provider)
                   ELSE state.provider_instance
       IN IF made = "raise"
          THEN state' = [state EXCEPT !.raised = TRUE]
          ELSE state' = [state EXCEPT
                            !.provider_instance = made,
                            !.raised = FALSE,
                            !.sessions = Append(@, [provider |-> made,
                                                    setting |-> state.browser_provider])]
    /\ UNCHANGED <<node, route, registered, think_runs, choices, sent, routed_by>>

\* cleanup_browser_provider: the instance is dropped.
CleanupProvider ==
    /\ state.provider_instance # "none"
    /\ state' = [state EXCEPT !.provider_instance = "none"]
    /\ UNCHANGED <<node, route, registered, think_runs, choices, sent, routed_by>>

ProviderNext == ChangeSetting \/ CreateBrowserSession \/ CleanupProvider

ProviderSpec == ProviderInit /\ [][ProviderNext]_vars

---------------------------------------------------------------------------
(* Claims about the routers (RouterSpec) *)

\* None of the four stop guards of a router fires in s.
NoStopGuard(s) ==
    /\ ~s.completed
    /\ s.error = ""
    /\ s.consecutive_failures < s.max_failures + (IF s.final_response_after_failure THEN 1 ELSE 0)
    /\ s.step_count < s.max_steps

C4_FinalAttemptBoundary ==
    (/\ routed_by = "think"
     /\ ~state.completed /\ state.error = ""
     /\ state.step_count < state.max_steps /\ state.think_output # "") =>
        /\ state.consecutive_failures < state.max_failures => route = "continue"
        /\ (state.final_response_after_failure
              /\ state.consecutive_failures = state.max_failures) => route = "continue"
        /\ (state.final_response_after_failure
              /\ state.consecutive_failures > state.max_failures) => route = "done"
        /\ (~state.final_response_after_failure
              /\ state.consecutive_failures >= state.max_failures) => route = "done"

\* C4 witness: three failures with max_failures 3 and the flag set continue to Act.
C4_Witness ==
    /\ routed_by = "think" /\ route = "continue" /\ node = "act"
    /\ state.final_response_after_failure
    /\ state.consecutive_failures = 3 /\ state.max_failures = 3

\* The trailing run of failed verify entries: the length of the longest suffix
\* of h made only of verify entries with status fail.
TrailingFailedVerifyRun(h) ==
    LET IsFail(i) == h[i].node = "verify" /\ h[i].verification_status = "fail"
        Broken == { i \in 1..Len(h) : ~IsFail(i) }
    IN Len(h) - (IF Broken = {} THEN 0 ELSE CHOOSE i \in Broken : \A j \in Broken : j <= i)

\* The failed verify entries that follow the last verify entry that did not
\* fail, entries of other nodes not counted and not ending the run.
FailedVerifySinceLastPass(h) ==
    LET Passed == { i \in 1..Len(h) :
                      h[i].node = "verify" /\ h[i].verification_status # "fail" }
        last == IF Passed = {} THEN 0 ELSE CHOOSE i \in Passed : \A j \in Passed : j <= i
    IN Cardinality({ i \in (last + 1)..Len(h) : h[i].node = "verify" })

\* C10 as stated: with no stop guard firing, a failed verification is retried
\* while the trailing run of failed verify entries of history is shorter than
\* max_retries and ends the loop once the run reaches it; a passed or absent
\* verification continues.
C10_TrailingRunDecides ==
    (routed_by = "verify" /\ NoStopGuard(state)) =>
        /\ state.verification_status = "fail" =>
              route = (IF TrailingFailedVerifyRun(state.history) < max_retries
                       THEN "retry" ELSE "done")
        /\ state.verification_status \in {"pass", ""} => route = "continue"

\* C10 amended: the count that decides is the number of failed verify entries
\* met scanning history backward up to the first verify entry that did not
\* fail, think and act entries in between being skipped.
C10_FailedVerifyCountDecides ==
    (routed_by = "verify" /\ NoStopGuard(state)) =>
        /\ state.verification_status = "fail" =>
              route = (IF FailedVerifySinceLastPass(state.history) < max_retries
                       THEN "retry" ELSE "done")
        /\ state.verification_status \in {"pass", ""} => route = "continue"
        /\ node = (IF route = "done" THEN "report" ELSE "think")

\* C10 witness: three failed verifications separated by a think entry end the loop.
C10_Witness ==
    /\ routed_by = "verify" /\ NoStopGuard(state)
    /\ state.verification_status = "fail"
    /\ FailedVerifySinceLastPass(state.history) = max_retries
    /\ TrailingFailedVerifyRun(state.history) < max_retries
    /\ route = "done"

\* C28 as stated: the count the router derives from history is the length of
\* the maximal suffix of history made only of failed verify entries, so a
\* failed verify entry followed by a think or act entry is not counted.
C28_ScanStopsAtAnyOtherEntry ==
    (routed_by = "verify" /\ NoStopGuard(state) /\ state.verification_status = "fail") =>
        recent_failures(state.history) = TrailingFailedVerifyRun(state.history)

\* C28 amended: the scan passes over the entries of other nodes and stops at
\* the first verify entry that did not fail; the count is the number of
\* failed verify entries after that entry, and it is at least the trailing run.
C28_ScanStopsAtPassedVerify ==
    (routed_by = "verify" /\ NoStopGuard(state) /\ state.verification_status = "fail") =>
        /\ recent_failures(state.history) = FailedVerifySinceLastPass(state.history)
        /\ recent_failures(state.history) >= TrailingFailedVerifyRun(state.history)
        /\ (route = "retry") <=> (recent_failures(state.history) < max_retries)

\* C28 witness: a failed verify entry followed by an entry of another node is
\* counted.
C28_Witness ==
    /\ routed_by = "verify" /\ NoStopGuard(state)
    /\ state.verification_status = "fail"
    /\ Len(state.history) >= 2
    /\ state.history[Len(state.history)].node # "verify"
    /\ state.history[Len(state.history) - 1].node = "verify"
    /\ state.history[Len(state.history) - 1].verification_status = "fail"
    /\ recent_failures(state.history) >= 1
    /\ route = "retry"

---------------------------------------------------------------------------
(* The Think/Act loop of the workflow graph *)

\* A step of the graph that runs the think node (and its conditional edge).
ThinkStep == node = "think" /\ think_runs' = think_runs + 1

\* A step of the graph that runs the act node to its return.
ActStep == node = "act" /\ node' # "act" /\ node' # "crashed"

\* C2: every execution of Init -> Plan -> Think <-> Act reaches Report, and
\* Think is executed at most max_steps times.
C2_ReachesReportWithinBudget ==
    /\ <>(node = "report")
    /\ [](think_runs <= state.max_steps)

\* C3: in every reachable state, for every max_steps >= 0, step_count is at
\* most max_steps.
C3_StepCountWithinBudget == state.step_count <= state.max_steps

\* C5: consecutive_failures grows by one after each unsuccessful Act outcome,
\* is 0 after a successful one, and no other transition changes it.
C5_FailureCounterTracksOutcomes ==
    [][IF ActStep
       THEN IF state'.last_act_result_success
            THEN state'.consecutive_failures = 0
            ELSE state'.consecutive_failures = state.consecutive_failures + 1
       ELSE state'.consecutive_failures = state.consecutive_failures]_vars

\* C7: once Think or Act records a fault in state.error, the next node is
\* Report: no further Think or Act runs.
C7_FaultRoutesToReport ==
    [][(state.error = "" /\ state'.error # "") => node' = "report"]_vars

\* The feedback of the last Act reports a page mismatch or a detected error.
RecoveryPending(s) ==
    /\ s.act_feedback.present
    /\ \/ s.act_feedback.detected_errors # <<>> /\ ~s.last_act_result_success
       \/ s.act_feedback.pv_present /\ ~s.act_feedback.pv_valid

\* C8: when a recovery attempt takes think_retries past the ceiling of 3, the
\* loop is terminated (Report) instead of another Act being dispatched.
C8_RetryCeilingEscalates ==
    [][(ThinkStep /\ RecoveryPending(state) /\ state.think_retries + 1 > RetryCeiling)
          => node' = "report"]_vars

\* The length of the run of equal actions with an element index that ends seq.
RECURSIVE TrailingSame(_)
TrailingSame(seq) ==
    IF seq = <<>> \/ ~seq[Len(seq)].has_index THEN 0
    ELSE IF Len(seq) > 1 /\ seq[Len(seq) - 1] = seq[Len(seq)]
         THEN 1 + TrailingSame(SubSeq(seq, 1, Len(seq) - 1))
         ELSE 1

ForcedTermination == state.error # "" /\ state.completed /\ node = "report"

C9_NewTabRoutesToVerify ==
    [][ActStep => IF state'.new_tab_id # 0 THEN node' = "verify" ELSE node' = "think"]_vars

\* The wrapper step reaches its call of act_node with the list it generated.
GeneratesAndExecutes(s, reg, drv) ==
    /\ s.browser_session_id # "" /\ reg
    /\ drv.state_ok
    /\ drv.validation = "valid"
    /\ drv.generated # <<>>
    /\ ~ActNodeRaises(s, reg, drv)

\* C29: when the wrapper generates a non-empty action list on a valid page,
\* the act_node it calls executes that list: action_results has one entry per
\* generated action, in the order of the list.
C29_GeneratedActionsAreExecuted ==
    [][\A drv \in WrapperInputs(state) :
          (ActStep /\ GeneratesAndExecutes(state, registered, drv)
             /\ state' = Merge(state, act_wrapper_node(state, registered, drv)))
          => /\ Len(state'.action_results) = Len(drv.generated)
             /\ \A i \in 1..Len(state'.executed_actions) :
                   \E j \in 1..Len(drv.generated) :
                      state'.executed_actions[i] = drv.generated[j]]_vars

\* The feedback of the last Act reports a page mismatch with a recovery
\* suggestion.
MismatchReported(s) ==
    /\ s.act_feedback.present
    /\ s.act_feedback.pv_present /\ ~s.act_feedback.pv_valid
    /\ s.act_feedback.pv_recovery # ""

\* C30: after Act reports a page mismatch with a recovery suggestion, the
\* Think that follows emits the suggestion as its decision, and the Act that
\* follows that Think, unless it raises, executes at least one driver action
\* and does not report the page mismatch again.
C30_MismatchRecoveryIsCarriedOut ==
    [][/\ (ThinkStep /\ MismatchReported(state) /\ state'.error = "" /\ ~state'.completed)
             => state'.think_output = state.act_feedback.pv_recovery
       /\ (ActStep /\ MismatchReported(state)
             /\ state.think_output = state.act_feedback.pv_recovery
             /\ state'.error = "")
             => /\ state'.executed_actions # <<>>
                /\ ~MismatchReported(state')]_vars

---------------------------------------------------------------------------
(* Failed suspension points *)

\* Some tool call of the Act step that produced these results raised.
ToolRaised(results) ==
    \E i \in 1..Len(results) : results[i].error = "tool raised"

\* C11: when a suspension point (here a tool call of Act) times out or raises,
\* the step's outcome is recorded as failed and the failure counter grows.
C11_RaiseFeedsFailureCounter ==
    [][(ActStep /\ ToolRaised(state'.action_results))
          => /\ \E i \in 1..Len(state'.action_results) : ~state'.action_results[i].success
             /\ state'.consecutive_failures = state.consecutive_failures + 1]_vars

---------------------------------------------------------------------------
(* Oracle responses read by the minimal Think node *)

\* C12: whatever text the oracle returns (prose, empty, JSON that is no
\* object, an object without next_step), Think records no error and produces
\* a non-empty think_output.
C12_MalformedResponseNeverEndsTask ==
    [][(ThinkStep /\ AsksOracle(state, registered))
          => \A text \in ResponseTexts :
                state' = Merge(state, think_node(state, registered, text))
                   => state'.error = "" /\ state'.think_output # ""]_vars

---------------------------------------------------------------------------
(* History *)

IsPrefix(h, g) == Len(h) <= Len(g) /\ SubSeq(g, 1, Len(h)) = h

\* C13: after every Think or Act transition the previous history is a prefix
\* of the new history and at most one entry was added.
C13_HistoryAppendOnly ==
    [][(ThinkStep \/ ActStep)
          => /\ IsPrefix(state.history, state'.history)
             /\ Len(state'.history) <= Len(state.history) + 1]_vars


---------------------------------------------------------------------------
(* Claims about the checklist (TodoSpec) *)

IsComplete(line) == line.box \in {"[x]", "[X]"}

\* The steps that are still incomplete, by position in the parsed list.
Incomplete(steps) == { k \in 1..Len(steps) : ~steps[k].completed }

FirstIncomplete(steps) ==
    IF Incomplete(steps) = {} THEN NoStep
    ELSE steps[CHOOSE k \in Incomplete(steps) : \A j \in Incomplete(steps) : k <= j]

\* C15: after Think's update for the matcher's index set S, exactly the
\* pending steps with index in S are complete in addition, every other step is
\* as before, and the current step is the first step still incomplete.
C15_ThinkMarksExactlyMatched ==
    [][state'.op = "think"
          => LET old == ThinkStepLines(state.todo_contents)
                 new == ThinkStepLines(state'.todo_contents)
                 S == { state'.arg[k] : k \in 1..Len(state'.arg) }
             IN /\ Len(new) = Len(old)
                /\ \A k \in 1..Len(old) :
                      /\ new[k].text = old[k].text
                      /\ IsComplete(new[k]) = (IsComplete(old[k]) \/ (k - 1) \in S)
                /\ get_current_step(state'.todo_contents)
                      = FirstIncomplete(parse_todo_steps(state'.todo_contents))]_vars

\* C16: no marking and no update of Think changes the order or the number of
\* the step texts, or makes a complete step incomplete.
C16_StepsFixedAndMonotone ==
    [][LET old == parse_todo_steps(state.todo_contents)
           new == parse_todo_steps(state'.todo_contents)
       IN /\ Len(new) = Len(old)
          /\ \A k \in 1..Len(old) :
                /\ new[k].text = old[k].text
                /\ old[k].completed => new[k].completed]_vars

\* C17: the progress summary agrees with the parsed step list: completed +
\* pending = total, all_done exactly when nothing is pending, and current_step
\* the incomplete step of lowest index, none exactly when no step is incomplete.
C17_ProgressConsistent ==
    LET p == get_todo_progress(state.todo_contents)
        steps == parse_todo_steps(state.todo_contents)
    IN /\ p.completed + p.pending = p.total
       /\ p.total = Len(steps)
       /\ p.completed = Cardinality({ k \in 1..Len(steps) : steps[k].completed })
       /\ p.all_done <=> (p.pending = 0)
       /\ (p.current_step = NoStep) <=> (Incomplete(steps) = {})
       /\ p.current_step = FirstIncomplete(steps)
       /\ \A k \in Incomplete(steps) : p.current_step.index <= steps[k].index

\* A checklist with a complete step and two steps still pending.
C17_Witness ==
    /\ state.op \in {"mark", "think"}
    /\ get_todo_progress(state.todo_contents).completed >= 1
    /\ get_todo_progress(state.todo_contents).pending >= 1
    /\ get_todo_progress(state.todo_contents).current_step.index >= 1


---------------------------------------------------------------------------
(* Claims about stability detection (StabilitySpec) *)

\* The identifier set is the same in the last k of the samples.
UnchangedAcross(samples, k) ==
    /\ Len(samples) >= k
    /\ \A a, b \in (Len(samples) - k + 1)..Len(samples) : samples[a] = samples[b]

\* C18: the detector takes at most max_passes samples and takes no sample
\* after the identifier set was unchanged across stability_threshold
\* consecutive samples; it returns with fewer than max_passes samples only
\* then.
C18_StabilityBoundedAndEarly ==
    /\ Len(state.samples) <= max_passes
    /\ \A n \in 1..(Len(state.samples) - 1) :
          ~UnchangedAcross(SubSeq(state.samples, 1, n), stability_threshold)
    /\ state.returned =>
          /\ state.passes_taken = Len(state.samples)
          /\ state.passes_taken < max_passes
                => UnchangedAcross(state.samples, stability_threshold)

\* The detector returned early, after the identifier set had changed twice.
C18_Witness ==
    /\ state.returned
    /\ state.passes_taken = 4
    /\ state.samples[1] # state.samples[2]
    /\ state.samples[2] # state.samples[3]
    /\ state.samples[3] = state.samples[4]


---------------------------------------------------------------------------
(* Claims about error detection (DetectSpec) *)

C19_TableOrder ==
    <<"already_exists", "permission_denied", "not_found", "invalid_input",
      "network_error", "server_error">>

C19_BucketOrder ==
    <<"invalid_input", "permission_denied", "not_found", "network_error", "server_error">>

Range19(order) == { order[i] : i \in 1..Len(order) }

\* kind is the first entry of order that is among the matching ones.
IsFirstIn(order, kind, matching) ==
    \E i \in 1..Len(order) :
       /\ order[i] = kind
       /\ kind \in matching
       /\ \A j \in 1..(i - 1) : order[j] \notin matching

Classified(e) == e.path \in {"console", "action_error", "long_term_memory", "extracted_content"}

\* C19: a classified text gets the first kind in table order a pattern of
\* which matches it; with no such kind the first keyword bucket, in the
\* buckets' order, a keyword of which occurs in it; and generic otherwise.
C19_FirstMatchInTableOrder ==
    \A k \in 1..Len(state.errors) :
       LET e == state.errors[k]
           by_pattern == { kind \in Range19(C19_TableOrder) : PatternMatches(kind, e.message) }
           by_keyword == { bucket \in Range19(C19_BucketOrder) : KeywordIn(bucket, e.message) }
       IN Classified(e) =>
             IF by_pattern # {} THEN IsFirstIn(C19_TableOrder, e.error_type, by_pattern)
             ELSE IF by_keyword # {} THEN IsFirstIn(C19_BucketOrder, e.error_type, by_keyword)
             ELSE e.error_type = "generic"

\* A text that patterns of already_exists and of invalid_input match, and
\* that holds a keyword of the first bucket, was classified already_exists.
C19_Witness ==
    /\ state.source = "action_result"
    /\ Len(state.errors) >= 1
    /\ state.errors[1].path = "action_error"
    /\ state.errors[1].message = {"invalid", "already registered"}
    /\ state.errors[1].error_type = "already_exists"

\* C20: every extracted error has the severity of its kind, high exactly for
\* permission_denied, network_error and server_error, and a recovery hint
\* unless its kind is generic.
C20_SeverityAndHintByKind ==
    \A k \in 1..Len(state.errors) :
       LET e == state.errors[k]
       IN /\ e.severity = IF e.error_type \in {"permission_denied", "network_error", "server_error"}
                          THEN "high" ELSE "medium"
          /\ e.error_type # "generic" => e.recovery_hint # ""


DomSourced(e) == e.path \in {"dom_text", "error_element"}

\* C21: when the console gave an error, the returned list holds console
\* errors only; errors of the DOM text scan and of error elements are in the
\* list only when the console gave none.
C21_ConsoleErrorsTakePriority ==
    state.source = "dom" =>
       /\ state.page.console_errors # <<>>
             => \A k \in 1..Len(state.errors) : ~DomSourced(state.errors[k])
       /\ (\E k \in 1..Len(state.errors) : DomSourced(state.errors[k]))
             => /\ state.page.console_errors = <<>>
                /\ state.page.console_validation_errors = <<>>

\* A page with a console error, whose DOM text matches a pattern and whose
\* DOM holds an error element, was examined.
C21_Witness ==
    /\ state.source = "dom"
    /\ state.page.console_errors # <<>>
    /\ state.page.has_dom
    /\ PatternMatches("permission_denied", state.page.dom_text)
    /\ state.page.error_elements # <<>>
    /\ state.errors # <<>>

\* C22: no two errors of one detection pass have equal messages.
C22_NoEqualMessages ==
    \A a, b \in 1..Len(state.errors) :
       a # b => state.errors[a].message # state.errors[b].message

\* C23: two classifications of the same text give the same kind and the same
\* severity.
C23_SameTextSameKindAndSeverity ==
    \A a, b \in 1..Len(state.errors) :
       (Classified(state.errors[a]) /\ Classified(state.errors[b])
           /\ state.errors[a].message = state.errors[b].message)
          => /\ state.errors[a].error_type = state.errors[b].error_type
             /\ state.errors[a].severity = state.errors[b].severity


---------------------------------------------------------------------------
(* Claims about page validation (PageSpec) *)

\* C24: a page whose key signals include email_field and password_field
\* validates the step 'login with credentials', whatever its URL, inferred
\* page kind and element counts.
C24_LoginFieldsValidateLoginStep ==
    (/\ state.validated
     /\ state.step_text = {"login", "credentials"}
     /\ {"email_field", "password_field"} \subseteq state.page.visible_text_elements)
       => state.is_valid

\* C25: a step whose only action is navigate is valid on every page; a step
\* with navigate and other actions is validated as the step of the other
\* actions alone.
C25_BareNavigateValid ==
    state.validated =>
       /\ StepActions(state.step_text) = {"navigate"} => state.is_valid
       /\ ("go to" \in state.step_text /\ StepActions(state.step_text) # {"navigate"})
             => state.is_valid
                   = validate_against_todo_step(state.page, state.step_text \ {"go to"}).valid

\* A navigation step was validated on a page of unknown kind, where no other
\* rule accepts it.
C25_Witness ==
    /\ state.validated
    /\ state.step_text = {"go to"}
    /\ state.inferred_page = "unknown"
    /\ state.is_valid


---------------------------------------------------------------------------
(* Claims about the browser tools (ToolSpec) *)

\* The tools whose Tools method takes the file system, and the extraction LLM.
NeedsFileSystem(tool) == tool \in {"extract_content", "write_file", "read_file", "done"}

NeedsExtractionLLM(tool) == tool = "extract_content"

\* The tools with a string argument that has no default.
TakesText ==
    {"navigate", "search", "input_text", "select_dropdown", "extract_content", "find_text",
     "switch_tab", "close_tab", "upload_file", "write_file", "read_file", "send_keys",
     "evaluate_javascript", "done"}

\* The tools that reject an empty string argument.
ChecksText ==
    {"select_dropdown", "extract_content", "find_text", "switch_tab", "close_tab",
     "upload_file", "write_file", "read_file", "send_keys", "evaluate_javascript"}

MissingDependency ==
    \/ ~state.ctx.set
    \/ NeedsFileSystem(state.tool) /\ ~state.ctx.file_system
    \/ NeedsExtractionLLM(state.tool) /\ ~state.ctx.page_extraction_llm

\* C26 (as stated): with no context, a missing file system or extraction LLM,
\* or an empty required argument, the call raises and the method is never
\* awaited.
C26_RaisesBeforeAwait ==
    (state.called /\ (MissingDependency \/ (state.tool \in TakesText /\ state.args.text = "")))
       => state.raised # "" /\ ~state.awaited

\* C26 (amended): the same, for the empty arguments that the tool checks.
C26_RaisesBeforeAwaitWhenChecked ==
    (state.called /\ (MissingDependency \/ (state.tool \in ChecksText /\ state.args.text = "")))
       => state.raised \in {"ValueError", "BrowserToolExecutionError"} /\ ~state.awaited

\* write_file was called with a file name and a context without file system.
C26_Witness ==
    /\ state.called
    /\ state.tool = "write_file"
    /\ state.args.text = "x"
    /\ state.ctx.set /\ state.ctx.has_method /\ ~state.ctx.file_system
    /\ state.raised = "BrowserToolExecutionError"


---------------------------------------------------------------------------
(* Claims about tool call normalisation (NormalizeSpec) *)

\* The same tool call in the other form.
OtherForm(tool_call) ==
    IF tool_call.form = "dict" THEN [tool_call EXCEPT !.form = "object"]
    ELSE IF tool_call.form = "object" THEN [tool_call EXCEPT !.form = "dict"]
    ELSE tool_call

Named(tool_call) == tool_call.form # "none" /\ tool_call.name \notin {"missing", ""}

\* The positions of the tool calls with a name, in order.
RECURSIVE NamedCalls(_)
NamedCalls(raw_tool_calls) ==
    IF raw_tool_calls = <<>> THEN <<>>
    ELSE (IF Named(Head(raw_tool_calls)) THEN <<Head(raw_tool_calls)>> ELSE <<>>)
         \o NamedCalls(Tail(raw_tool_calls))

\* C27: a tool call gives the same action as a dict and as an object: its
\* name, its args if they are a dict and {} otherwise, and its id; without a
\* name it gives the empty dict, and Think keeps the named calls only, in
\* order.
C27_NormalizedAlikeFromDictAndObject ==
    state.normalized =>
       /\ \A k \in 1..Len(state.raw_tool_calls) :
             LET c == state.raw_tool_calls[k]
             IN /\ _tool_call_to_action(c) = _tool_call_to_action(OtherForm(c))
                /\ Named(c) =>
                      /\ _tool_call_to_action(c).action_type = c.name
                      /\ _tool_call_to_action(c).params
                            = (IF c.args = "{index: 5}" THEN "{index: 5}" ELSE "{}")
                      /\ _tool_call_to_action(c).tool_call_id
                            = (IF c.id = "missing" THEN "None" ELSE c.id)
                /\ ~Named(c) => _tool_call_to_action(c) = EmptyAction
       /\ Len(state.actions) = Len(NamedCalls(state.raw_tool_calls))
       /\ \A k \in 1..Len(state.actions) :
             state.actions[k] = _tool_call_to_action(NamedCalls(state.raw_tool_calls)[k])

\* A response with an object whose args are no dict and a call without name:
\* one action, with empty params.
C27_Witness ==
    /\ state.normalized
    /\ Len(state.raw_tool_calls) = 2
    /\ state.raw_tool_calls[1].name = "missing"
    /\ state.raw_tool_calls[2].form = "object"
    /\ state.raw_tool_calls[2].args = "[5]"
    /\ Len(state.actions) = 1
    /\ state.actions[1].params = "{}"


---------------------------------------------------------------------------
(* Parsing and marking on the same checklist text (TodoSpec) *)

\* The indices parse_todo_steps reports for the steps of a text.
StepIndices(todo_contents) ==
    { parse_todo_steps(todo_contents)[k].index : k \in 1..Len(parse_todo_steps(todo_contents)) }

\* C31: marking addresses the step parse_todo_steps numbers: after
\* mark_step_completed(text, i) for the index i of a pending step, parsing
\* gives the same steps with step i complete and every other step as before;
\* for an index no step has, the text is unchanged.
C31_MarkAgreesWithParse ==
    [][\A i \in 0..MaxLines :
          (state'.op = "mark" /\ state'.arg = <<i>>
             /\ state'.todo_contents = mark_step_completed(state.todo_contents, i))
          => LET before == parse_todo_steps(state.todo_contents)
                 after == parse_todo_steps(state'.todo_contents)
             IN /\ (\E k \in 1..Len(before) : before[k].index = i /\ ~before[k].completed)
                      => /\ Len(after) = Len(before)
                         /\ \A k \in 1..Len(before) :
                               after[k] = IF before[k].index = i
                                          THEN [before[k] EXCEPT !.completed = TRUE]
                                          ELSE before[k]
                /\ i \notin StepIndices(state.todo_contents)
                      => state'.todo_contents = state.todo_contents]_vars


---------------------------------------------------------------------------
(* Claims about the wait after a batch (WaitSpec) *)

\* C32: after a batch with a page-navigating action Act waits on the network
\* signal and does not poll element identifiers, also when the batch has a
\* DOM-mutating action as well; polling is used only for batches that are
\* DOM-mutating and not page-navigating.
C32_PageChangingBatchWaitsOnNetwork ==
    state.waited =>
       /\ has_page_changing_action(state.executed_actions) => state.wait = "network"
       /\ state.wait = "poll_elements" =>
             /\ has_dom_changing_action(state.executed_actions)
             /\ ~has_page_changing_action(state.executed_actions)


---------------------------------------------------------------------------
(* Claims about the error context of the feedback (FeedbackSpec) *)

\* The errors in detection order: page scan first, action results after.
DetectionOrder(s) == s.dom_errors \o ResultErrors(s.action_results)

OfSeverity(errors, severity) == SelectSeq(errors, LAMBDA e : e.severity = severity)

---------------------------------------------------------------------------
(* Page kind of an auth URL (PageSpec) *)

\* C34: for a URL whose path has an auth keyword the page is login exactly
\* when its signals have an identity field (email or username) and a password
\* field and it has a button; otherwise signup (more than 3 inputs and a
\* button) or auth_page.
C34_AuthUrlWithCredentialFieldsIsLogin ==
    (state.validated /\ state.page.matched_page_type = "auth") =>
        state.inferred_page =
            (IF /\ "email_field" \in state.page.visible_text_elements
                /\ "password_field" \in state.page.visible_text_elements
                /\ state.page.element_types.button > 0
             THEN "login"
             ELSE IF state.page.element_types.input > 3 /\ state.page.element_types.button > 0
             THEN "signup"
             ELSE "auth_page")


---------------------------------------------------------------------------
(* Recovery suggestions (PageSpec) *)

\* C35: suggest_recovery returns None exactly when validate_against_todo_step
\* accepts the step, so whenever the wrapper's page validation fails it comes
\* with a non-empty recovery suggestion and the wrapper short-circuits.
C35_RecoveryExactlyWhenInvalid ==
    state.validated =>
       /\ (suggest_recovery(state.page, state.step_text) = "") <=> state.is_valid
       /\ ~state.page_validation.is_valid =>
             /\ state.page_validation.recovery_suggestion # ""
             /\ state.short_circuit

\* C35 witness: a step with no target page rejected on an unknown page.
C35_Witness ==
    /\ state.validated
    /\ ~state.page_validation.is_valid
    /\ TargetPage(state.step_text) = ""
    /\ state.page_validation.recovery_suggestion = "Cannot determine current page"
    /\ state.short_circuit


---------------------------------------------------------------------------
(* The action loop of the Act node (ActSpec) *)

\* The k-th smallest element of a set of positions.
NthOf(S, k) == CHOOSE p \in S : Cardinality({ q \in S : q <= p }) = k

\* The positions of the actions with an action type, and of those among them
\* whose tool is known and returns.
TypedPositions(actions) == { p \in 1..Len(actions) : actions[p].action_type # "" }

ReturningPositions(actions, outcomes) ==
    { p \in TypedPositions(actions) :
        actions[p].action_type \in KnownTools /\ outcomes[p] # "raise" }

\* C36: the loop goes through the planned actions in order and does not stop
\* at a failure: action_results has one entry per action with an action type,
\* in order, also after an unknown tool or a raise, and executed_actions is
\* the subsequence of the actions whose tool returned.
C36_LoopContinuesAfterFailure ==
    [][\A drv \in ActInputs(state) :
          (/\ ActStep /\ state.browser_session_id # "" /\ registered
           /\ state.actions # <<>>
           /\ ~ActNodeRaises(state, registered, drv)
           /\ state' = Merge(state, act_node(state, registered, drv)))
          => LET typed == TypedPositions(state.actions)
                 returning == ReturningPositions(state.actions, drv.outcomes)
             IN /\ Len(state'.action_results) = Cardinality(typed)
                /\ \A k \in 1..Len(state'.action_results) :
                      state'.action_results[k].action = state.actions[NthOf(typed, k)]
                /\ Len(state'.executed_actions) = Cardinality(returning)
                /\ \A k \in 1..Len(state'.executed_actions) :
                      state'.executed_actions[k] = state.actions[NthOf(returning, k)]]_vars

\* C36 witness: the first action's tool raised or is unknown, the second
\* action was still invoked and returned.
C36_Witness ==
    /\ node = "think"
    /\ Len(state.action_results) = 2
    /\ state.action_results[1].error \in {"tool raised", "Unknown action"}
    /\ state.action_results[2].success
    /\ state.executed_actions = <<state.action_results[2].action>>


---------------------------------------------------------------------------
(* Claims about the ambient tool context (ContextSpec) *)

\* C37: the context is set around every tool invocation and restored after
\* it, also when the tool raises: outside an invocation, and after act_node
\* returned, a task's context is unset, and a tool never sees the context of
\* another task.
C37_ContextSetAndRestored ==
    \A task \in Tasks :
       /\ state.pc[task] \in {"idle", "loop"} => state.contexts[task] = "none"
       /\ state.pc[task] = "awaiting" => state.contexts[task] = task
       /\ state.pc[task] = "finally" => state.seen[task] = task
       /\ state.seen[task] \in {"none", task}

\* C37 witness: a task whose tool raised has returned with the context unset
\* while the other task's tool call is being awaited.
C37_Witness ==
    \E task, other \in Tasks :
       /\ task # other
       /\ state.pc[task] = "idle" /\ state.raised[task]
       /\ state.contexts[task] = "none"
       /\ state.pc[other] = "awaiting"
       /\ state.contexts[other] = other


---------------------------------------------------------------------------
(* Claims about screencast streaming (StreamSpec) *)

\* C38: with several viewers on the same Chrome session, the screencast runs
\* in every state in which some viewer is still connected, and a server's
\* _screencast_enabled flag is true exactly when the screencast is running.
C38_ScreencastRunsWhileViewed ==
    /\ (\E v \in Viewers : state.viewer[v] = "open" /\ state.server[v].has_client)
          => state.screencast_running
    /\ \A v \in Viewers :
          state.viewer[v] = "open" =>
             (state.server[v].screencast_enabled <=> state.screencast_running)


---------------------------------------------------------------------------
(* Claims about the browser provider (ProviderSpec) *)

\* C39: every session is created with the provider named by
\* settings.browser_provider at the time of the call that created it.
C39_SessionUsesCurrentSetting ==
    \A k \in 1..Len(state.sessions) :
       state.sessions[k].provider = get_browser_provider(state.sessions[k].setting)

====
